---- MODULE Spec2Model ----
(***************************************************************************)
(* Model of the DShield coordination engine: the LangGraph analysis        *)
(* workflow (services/workflow), the sliding-window rate limiter           *)
(* (services/database/rate_limiting.py), the Celery analysis task          *)
(* (services/workers/tasks.py), the coordination API router                *)
(* (services/api/routers/coordination.py), the cache and workflow-state    *)
(* managers (services/database/cache.py, workflow_state.py) and the LLM    *)
(* client's parsing of responses (services/llm/client.py).                 *)
(*                                                                         *)
(* Scores are exact rationals [n, d]: the code uses floats, and their      *)
(* rounding is modelled where the order of a sum can change the result     *)
(* (the two ToolCoordinator runs side by side).  Python dicts are          *)
(* functions whose DOMAIN is the key set.                                  *)
(***************************************************************************)
EXTENDS Integers, Sequences, FiniteSets, TLC

VARIABLES
    state,      \* the CoordinationAnalysisState of the workflow run
    node,       \* the engine's position: the node to run next, or the run's end
    path,       \* the nodes the engine has invoked, in order
    now,        \* datetime.utcnow(), in ticks
    llm,        \* whether the agents were built with an llm_client
    outcome,    \* what run_coordination_analysis returned or raised
    checkpoint, \* the State Store's checkpoint of this analysis, if one was written
    rl_zset,    \* the Redis sorted set of the rate-limit key: member -> score
    rl_expire,  \* the expiry time of the key, if one is set
    rl_time,    \* time.time(), in whole seconds
    rl_limit,   \* the limit L the caller passes
    rl_window,  \* the window the caller passes
    rl_caller,  \* each concurrent caller's position inside check_rate_limit
    rl_calls,   \* the check_rate_limit calls made, with what each returned
    task,       \* analyze_coordination_task: its position and local values
    posts,      \* the callback POSTs attempted, in order
    progress,   \* the update_task_progress milestones, in order
    next_id,    \* the analysis ids minted so far (uuid4, modelled as 1, 2, ...)
    jobs,       \* the background tasks FastAPI holds, in order
    processed,  \* what the background jobs that ran have produced, by id
    last_get,   \* the response of the latest get_analysis_results call
    max_sessions, \* settings.analysis_max_sessions as configured
    last_submit,  \* the latest analyze_coordination call: request and outcome
    last_bulk,    \* the latest bulk_analysis call: request and outcome
    runs,       \* two confidence-scoring runs side by side
    cache_store,   \* Redis as the managers see it: key -> text and expiry time
    cache_time,    \* the Redis server's clock, in seconds
    cache_written, \* per session id, the value of the latest set_analysis_result
    state_written, \* per state key, the dict last written and when it lapses
                   \* that succeeded, until the next set or invalidation of it
    cache_last,    \* the latest manager call: its arguments and what it returned
    cache_count,   \* the number of manager calls made
    pair,       \* two ToolCoordinator runs on one batch, side by side
    calc        \* a pure function of the agents: its argument and what the
                \* calls made so far returned

wfVars == <<state, node, path, now, llm, outcome, checkpoint>>
rlVars ==
    <<rl_zset, rl_expire, rl_time, rl_limit, rl_window, rl_calls, rl_caller>>
taskVars == <<task, posts, progress>>
apiVars ==
    <<next_id, jobs, processed, last_get, max_sessions, last_submit, last_bulk>>
scoreVars == <<runs>>
cacheVars ==
    <<cache_store, cache_time, cache_written, state_written, cache_last,
      cache_count>>
pairVars == <<pair>>
calcVars == <<calc>>

vars ==
    <<wfVars, rlVars, taskVars, apiVars, scoreVars, cacheVars, pairVars,
      calcVars>>

----------------------------------------------------------------------------
(* Exact rational arithmetic for scores.                                   *)

RECURSIVE GCD(_, _)
GCD(a, b) == IF b = 0 THEN a ELSE GCD(b, a % b)

Abs(x) == IF x < 0 THEN -x ELSE x

Rat(n, d) ==
    LET g == GCD(Abs(n), Abs(d))
        s == IF d < 0 THEN -1 ELSE 1
    IN  [n |-> (s * n) \div g, d |-> (s * d) \div g]

RAdd(a, b) == Rat(a.n * b.d + b.n * a.d, a.d * b.d)
RMul(a, b) == Rat(a.n * b.n, a.d * b.d)
RDiv(a, b) == Rat(a.n * b.d, a.d * b.n)
RLeq(a, b) == a.n * b.d <= b.n * a.d
RLt(a, b) == a.n * b.d < b.n * a.d
RGeq(a, b) == RLeq(b, a)
RGt(a, b) == RLt(b, a)

\* a score given in tenths
Tenths(k) == Rat(k, 10)
\* a weight given in hundredths
Hundredths(k) == Rat(k, 100)
Zero == Rat(0, 1)
One == Rat(1, 1)
Half == Rat(1, 2)

InUnit(r) == RLeq(Zero, r) /\ RLeq(r, One)

RECURSIVE RSumSeq(_)
RSumSeq(s) == IF s = <<>> THEN Zero ELSE RAdd(Head(s), RSumSeq(Tail(s)))

\* a set listed as a sequence, in some fixed order
RECURSIVE SetToSeq(_)
SetToSeq(S) ==
    IF S = {} THEN <<>>
    ELSE LET x == CHOOSE y \in S : TRUE IN <<x>> \o SetToSeq(S \ {x})

----------------------------------------------------------------------------
(* Python dicts.                                                           *)

EmptyDict == [k \in {} |-> 0]
DictGet(d, k, default) == IF k \in DOMAIN d THEN d[k] ELSE default
DictSet(d, k, v) == [x \in DOMAIN d \cup {k} |-> IF x = k THEN v ELSE d[x]]
\* Optional values: None is the empty sequence, a value v is <<v>>
None == <<>>
Some(v) == <<v>>

----------------------------------------------------------------------------
(* Inputs of a workflow run.                                               *)

\* bounds of the model
MaxBatch == 3
MaxIps == 2

DeepWindowSeconds == 300

Depths == {"minimal", "standard", "deep"}

\* A timestamp string: an ISO string with an offset ("aware"), one without
\* ("naive"), or a string datetime.fromisoformat rejects ("bad").
TzPatterns == {"aware", "mixed", "bad"}
Gaps == {DeepWindowSeconds - 1, DeepWindowSeconds}

\* n sessions from k addresses, successive timestamps gap seconds apart
Batch(n, k, gap, tz) ==
    [i \in 1..n |->
        [source_ip |-> ((i - 1) % k) + 1,
         timestamp |->
            [kind |-> IF tz = "mixed" /\ i = 2 THEN "naive"
                      ELSE IF tz = "bad" /\ i = 1 THEN "bad"
                      ELSE "aware",
             t |-> (i - 1) * gap]]]

Batches ==
    {Batch(n, k, gap, tz) :
        n \in 1..MaxBatch, k \in 1..MaxIps, gap \in Gaps, tz \in TzPatterns}

----------------------------------------------------------------------------
(* services/workflow/state.py                                              *)

CoordinationAnalysisState(sessions, depth) ==
    [attack_sessions |-> sessions,
     analysis_depth |-> depth,
     analysis_plan |-> EmptyDict,
     needs_deep_analysis |-> FALSE,
     correlation_results |-> EmptyDict,
     enrichment_data |-> EmptyDict,
     tool_results |-> EmptyDict,
     coordination_confidence |-> Zero,
     evidence_breakdown |-> EmptyDict,
     final_assessment |-> EmptyDict,
     workflow_start_time |-> None,
     workflow_end_time |-> None,
     processing_steps |-> <<>>,
     errors |-> <<>>]

\* mutant: the step is put at the front of the list
add_processing_step_prepend(s, step, t) ==
    [s EXCEPT !.processing_steps = <<[step |-> step, at |-> t]>> \o @]

add_processing_step(s, step, t) ==
    [s EXCEPT !.processing_steps = Append(@, [step |-> step, at |-> t])]

\* mutant: the error is recorded twice
add_error_twice(s, error, t) ==
    [s EXCEPT !.errors = Append(Append(@, [error |-> error, at |-> t]),
                                [error |-> error, at |-> t])]

add_error(s, error, t) ==
    [s EXCEPT !.errors = Append(@, [error |-> error, at |-> t])]

is_complete(s) ==
    /\ RGt(s.coordination_confidence, Zero)
    /\ s.final_assessment # EmptyDict
    /\ s.workflow_end_time # None

get_processing_time(s) ==
    IF s.workflow_start_time # None /\ s.workflow_end_time # None
    THEN Some(s.workflow_end_time[1] - s.workflow_start_time[1])
    ELSE None

to_result_dict(s) ==
    [coordination_confidence |-> s.coordination_confidence,
     evidence_breakdown |-> s.evidence_breakdown,
     final_assessment |-> s.final_assessment,
     processing_steps |-> s.processing_steps,
     processing_time |-> get_processing_time(s),
     errors |-> s.errors,
     analysis_depth |-> s.analysis_depth,
     session_count |-> Len(s.attack_sessions)]

----------------------------------------------------------------------------
(* OrchestratorAgent                                                       *)

SourceIps(sessions) == {sessions[i].source_ip : i \in DOMAIN sessions}

\* the timestamps that parse, in session order
ParsedTimestamps(sessions) ==
    LET ok(x) == x.timestamp.kind # "bad"
        kept == SelectSeq(sessions, ok)
    IN  [i \in DOMAIN kept |-> kept[i].timestamp]

\* sorted() compares an offset-naive with an offset-aware datetime: TypeError
SortRaises(timestamps) ==
    \E i, j \in DOMAIN timestamps : timestamps[i].kind # timestamps[j].kind

Intervals(sorted_times) ==
    [i \in 1..(Len(sorted_times) - 1) |-> sorted_times[i + 1] - sorted_times[i]]

should_deep_analyze_raises(sessions) ==
    /\ Len(sessions) >= 3
    /\ Cardinality(SourceIps(sessions)) # 1
    /\ Len(ParsedTimestamps(sessions)) >= 3
    /\ SortRaises(ParsedTimestamps(sessions))

should_deep_analyze(sessions) ==
    IF Len(sessions) < 3 THEN FALSE
    ELSE IF Cardinality(SourceIps(sessions)) = 1 THEN FALSE
    ELSE LET timestamps == ParsedTimestamps(sessions) IN
         IF Len(timestamps) >= 3
         THEN LET times == [i \in DOMAIN timestamps |-> timestamps[i].t]
                  sorted_times == SortSeq(times, LAMBDA a, b : a < b)
                  intervals == Intervals(sorted_times)
                  short_intervals ==
                      SelectSeq(intervals, LAMBDA i : i < DeepWindowSeconds)
              IN  2 * Len(short_intervals) > Len(intervals)
         ELSE FALSE

determine_analysis_steps(s) ==
    <<"pattern_analysis">>
    \o (IF s.needs_deep_analysis
        THEN <<"tool_coordination", "confidence_scoring">> ELSE <<>>)
    \o (IF s.analysis_depth = "deep" THEN <<"elasticsearch_enrichment">> ELSE <<>>)

\* the state as analyze_initial_data leaves it when _should_deep_analyze raises
analyze_initial_data_raised(s, t) ==
    [add_processing_step(s, "orchestrator_analysis", t)
        EXCEPT !.workflow_start_time = Some(t)]

analyze_initial_data(s, t) ==
    LET s1 == analyze_initial_data_raised(s, t)
        needs_deep == should_deep_analyze(s.attack_sessions)
        s2 == [s1 EXCEPT !.needs_deep_analysis = needs_deep]
    IN  [s2 EXCEPT !.analysis_plan =
            [analysis_depth |-> s.analysis_depth,
             needs_deep_analysis |-> needs_deep,
             session_count |-> Len(s.attack_sessions),
             analysis_steps |-> determine_analysis_steps(s2)]]

----------------------------------------------------------------------------
(* PatternAnalyzerAgent                                                    *)

\* What one llm_client.analyze_coordination call does: it raises, or returns
\* a CoordinationAnalysisResult (whose confidence pydantic keeps in [0,1]).
LlmConfidences == {Tenths(2), Tenths(9)}

LlmAnalysisReplies ==
    {[ok |-> FALSE, coordination_confidence |-> Zero]}
    \cup {[ok |-> TRUE, coordination_confidence |-> c] : c \in LlmConfidences}

\* _temporal_analysis, _behavioral_analysis and _infrastructure_analysis
\* differ in the key the score is stored under
dimension_analysis(score_key, has_llm, reply) ==
    IF ~has_llm
    THEN (score_key :> Half) @@ [method |-> "fallback"]
    ELSE IF reply.ok
    THEN (score_key :> reply.coordination_confidence)
         @@ [evidence |-> Zero, reasoning |-> "llm", method |-> "llm_analysis"]
    ELSE (score_key :> Half) @@ [method |-> "fallback", error |-> "llm error"]

temporal_analysis(has_llm, reply) ==
    dimension_analysis("correlation_score", has_llm, reply)

behavioral_analysis(has_llm, reply) ==
    dimension_analysis("similarity_score", has_llm, reply)

infrastructure_analysis(has_llm, reply) ==
    dimension_analysis("clustering_score", has_llm, reply)

\* replies: the three LLM replies; body_fails: an exception inside the try
analyze_patterns(s, t, has_llm, replies, body_fails) ==
    LET s1 == add_processing_step(s, "pattern_analysis", t) IN
    IF ~body_fails
    THEN [s1 EXCEPT !.correlation_results =
            [temporal |-> temporal_analysis(has_llm, replies.temporal),
             behavioral |-> behavioral_analysis(has_llm, replies.behavioral),
             infrastructure |->
                 infrastructure_analysis(has_llm, replies.infrastructure)]]
    ELSE [add_error(s1, "Pattern analysis failed", t)
            EXCEPT !.correlation_results =
                [temporal |-> [correlation_score |-> Zero, error |-> "e"],
                 behavioral |-> [similarity_score |-> Zero, error |-> "e"],
                 infrastructure |-> [clustering_score |-> Zero, error |-> "e"]]]

----------------------------------------------------------------------------
(* ToolCoordinatorAgent                                                    *)

\* a threat_score that is not a number (a string, None)
NotANumber == [n |-> 1, d |-> 0]
IsNumber(r) == r.d # 0

\* a threat_score above 1 (a feed that scores 0..10)
HighThreatTenths == 50
\* the mock's threat_score, 0.3
MockThreatTenths == 3

determine_tools_needed(s) ==
    (IF s.needs_deep_analysis
     THEN <<"bgp_lookup", "threat_intel", "geolocation">> ELSE <<>>)
    \o (IF s.analysis_depth = "deep" THEN <<"asn_analysis">> ELSE <<>>)

\* What each tool returns for the addresses: a tool raises (ok = FALSE) or
\* returns {"method": ..., "results": {ip: {...}}}.
BgpReplies(ips) ==
    {[ok |-> FALSE, results |-> EmptyDict],
     [ok |-> TRUE,
      results |-> [ip \in ips |-> [asn |-> <<"AS", 12345>>, prefix |-> "p"]]],
     [ok |-> TRUE,
      results |-> [ip \in ips |-> [asn |-> <<"AS", ip>>, prefix |-> "p"]]]}

GeoReplies(ips) ==
    {[ok |-> FALSE, results |-> EmptyDict],
     [ok |-> TRUE,
      results |-> [ip \in ips |-> [country |-> <<"US">>, city |-> "Unknown"]]],
     [ok |-> TRUE,
      results |-> [ip \in ips |-> [country |-> <<"C", ip>>, city |-> "Unknown"]]]}

ThreatReplies(ips) ==
    {[ok |-> FALSE, results |-> EmptyDict]}
    \cup {[ok |-> TRUE,
           results |-> [ip \in ips |->
                          [threat_score |-> v, reputation |-> "unknown"]]] :
            v \in {Tenths(MockThreatTenths), Tenths(HighThreatTenths), NotANumber}}
    \cup {[ok |-> TRUE,
           results |-> [ip \in ips |->
                          IF ip = 1 THEN [reputation |-> "unknown"]
                          ELSE [threat_score |-> Tenths(MockThreatTenths),
                                reputation |-> "unknown"]]]}

AsnReplies(ips) ==
    {[ok |-> FALSE, results |-> EmptyDict],
     [ok |-> TRUE,
      results |-> [ip \in ips |-> [asn |-> <<"AS", 12345>>, org |-> "Unknown"]]]}

ToolReplies(ips) ==
    [bgp_lookup : BgpReplies(ips), threat_intel : ThreatReplies(ips),
     geolocation : GeoReplies(ips), asn_analysis : AsnReplies(ips)]

\* mutant: the first tool that raises ends the loop for all of them
execute_tools_all_or_nothing(tools_needed, sessions, replies) ==
    LET needed == {tools_needed[i] : i \in DOMAIN tools_needed} IN
    [tool \in needed |->
        IF \A other \in needed : replies[other].ok
        THEN [method |-> "mock", results |-> replies[tool].results]
        ELSE [error |-> "tool failed"]]

execute_tools(tools_needed, sessions, replies) ==
    LET needed == {tools_needed[i] : i \in DOMAIN tools_needed} IN
    [tool \in needed |->
        IF replies[tool].ok
        THEN [method |-> "mock", results |-> replies[tool].results]
        ELSE [error |-> "tool failed"]]

\* mutant: as many values as entries still counts as clustered
clustering_score_lenient(results, field) ==
    LET values == {DictGet(results[ip], field, None) : ip \in DOMAIN results} IN
    IF Cardinality(values) = 1 THEN Tenths(8)
    ELSE IF Cardinality(values) <= Cardinality(DOMAIN results) THEN Tenths(5)
    ELSE Zero

\* 0.8 when all values agree, 0.5 when fewer values than entries, else 0.0
clustering_score(results, field) ==
    LET values == {DictGet(results[ip], field, None) : ip \in DOMAIN results} IN
    IF Cardinality(values) = 1 THEN Tenths(8)
    ELSE IF Cardinality(values) < Cardinality(DOMAIN results) THEN Tenths(5)
    ELSE Zero

threat_scores(tool_results) ==
    LET threat_results == DictGet(tool_results["threat_intel"], "results", EmptyDict)
        ips == SetToSeq(DOMAIN threat_results)
    IN  [i \in DOMAIN ips |-> DictGet(threat_results[ips[i]], "threat_score", Zero)]

\* sum() of a threat_score that is not a number: TypeError
synthesize_results_raises(tool_results) ==
    /\ "threat_intel" \in DOMAIN tool_results
    /\ \E i \in DOMAIN threat_scores(tool_results) :
          ~IsNumber(threat_scores(tool_results)[i])

synthesize_results(tool_results) ==
    [infrastructure_clustering |->
        IF "bgp_lookup" \in DOMAIN tool_results
        THEN clustering_score(
                 DictGet(tool_results["bgp_lookup"], "results", EmptyDict), "asn")
        ELSE Zero,
     geographic_proximity |->
        IF "geolocation" \in DOMAIN tool_results
        THEN clustering_score(
                 DictGet(tool_results["geolocation"], "results", EmptyDict),
                 "country")
        ELSE Zero,
     threat_correlation |->
        IF "threat_intel" \in DOMAIN tool_results
           /\ threat_scores(tool_results) # <<>>
        THEN RDiv(RSumSeq(threat_scores(tool_results)),
                  Rat(Len(threat_scores(tool_results)), 1))
        ELSE Zero]

execute_analysis_plan(s, t, replies) ==
    LET s1 == add_processing_step(s, "tool_coordination", t)
        results == execute_tools(determine_tools_needed(s), s.attack_sessions, replies)
    IN  IF ~synthesize_results_raises(results)
        THEN [s1 EXCEPT !.tool_results = results,
                        !.enrichment_data = synthesize_results(results)]
        ELSE [add_error(s1, "Tool coordination failed", t)
                EXCEPT !.tool_results = [error |-> "e"],
                       !.enrichment_data = EmptyDict]

----------------------------------------------------------------------------
(* LLMClient.score_confidence and ConfidenceScorerAgent                    *)

Weights ==
    [temporal_correlation |-> Hundredths(25),
     behavioral_similarity |-> Hundredths(25),
     infrastructure_clustering |-> Hundredths(20),
     geographic_proximity |-> Hundredths(15),
     payload_similarity |-> Hundredths(15)]

DefaultWeight == Hundredths(10)

WeightOf(evidence_type) == DictGet(Weights, evidence_type, DefaultWeight)

weighted_sum(evidence_scores) ==
    LET keys == SetToSeq(DOMAIN evidence_scores) IN
    RSumSeq([i \in DOMAIN keys |->
                RMul(evidence_scores[keys[i]], WeightOf(keys[i]))])

\* mutant: the sum is divided by the weight of all five dimensions
total_weight_of_all(evidence_scores) == One

total_weight(evidence_scores) ==
    LET keys == SetToSeq(DOMAIN evidence_scores) IN
    RSumSeq([i \in DOMAIN keys |-> WeightOf(keys[i])])

\* mutant: the score falls as the weighted sum grows
statistical_confidence_scoring_inverted(evidence_scores) ==
    IF DOMAIN evidence_scores = {} THEN Half
    ELSE IF RGt(total_weight(evidence_scores), Zero)
    THEN RAdd(One, RMul(Rat(-1, 1),
                        RDiv(weighted_sum(evidence_scores),
                             total_weight(evidence_scores))))
    ELSE Half

statistical_confidence_scoring(evidence_scores) ==
    IF DOMAIN evidence_scores = {} THEN Half
    ELSE IF RGt(total_weight(evidence_scores), Zero)
    THEN RDiv(weighted_sum(evidence_scores), total_weight(evidence_scores))
    ELSE Half

\* mutant: an empty evidence map is scored 0
estimate_confidence_empty_zero(evidence_scores) ==
    IF DOMAIN evidence_scores = {} THEN Zero
    ELSE IF RGt(total_weight(evidence_scores), Zero)
    THEN RDiv(weighted_sum(evidence_scores), total_weight(evidence_scores))
    ELSE Half

\* LLMClient._estimate_confidence
estimate_confidence(evidence_scores) ==
    IF DOMAIN evidence_scores = {} THEN Half
    ELSE IF RGt(total_weight(evidence_scores), Zero)
    THEN RDiv(weighted_sum(evidence_scores), total_weight(evidence_scores))
    ELSE Half

\* mutant: the parsed score is returned as it is
Clamp01_unclamped(score) == score

\* max(0.0, min(1.0, score))
Clamp01(score) ==
    IF RLt(score, Zero) THEN Zero ELSE IF RGt(score, One) THEN One ELSE score

\* What the LLM does on a score_confidence call: generate raises ("error"),
\* the text holds a "confidence: <float>" line ("score"), or it holds none.
LlmScoreTenths == {-5, 2, 8, 15}

LlmScoreReplies ==
    {[kind |-> "error", score |-> Zero], [kind |-> "noparse", score |-> Zero]}
    \cup {[kind |-> "score", score |-> Tenths(k)] : k \in LlmScoreTenths}

\* score_confidence, when generate did not raise
score_confidence(evidence_scores, reply) ==
    IF reply.kind = "score" THEN Clamp01(reply.score)
    ELSE estimate_confidence(evidence_scores)

llm_confidence_scoring(evidence_scores, has_llm, reply) ==
    IF ~has_llm THEN statistical_confidence_scoring(evidence_scores)
    ELSE IF reply.kind # "error" THEN score_confidence(evidence_scores, reply)
    ELSE statistical_confidence_scoring(evidence_scores)

extract_evidence_scores(s) ==
    (IF s.correlation_results # EmptyDict
     THEN [temporal_correlation |->
               DictGet(DictGet(s.correlation_results, "temporal", EmptyDict),
                       "correlation_score", Zero),
           behavioral_similarity |->
               DictGet(DictGet(s.correlation_results, "behavioral", EmptyDict),
                       "similarity_score", Zero),
           infrastructure_clustering |->
               DictGet(DictGet(s.correlation_results, "infrastructure", EmptyDict),
                       "clustering_score", Zero)]
     ELSE EmptyDict)
    @@ (IF s.enrichment_data # EmptyDict
        THEN [geographic_proximity |->
                  DictGet(s.enrichment_data, "geographic_proximity", Zero),
              threat_correlation |->
                  DictGet(s.enrichment_data, "threat_correlation", Zero)]
        ELSE EmptyDict)
    @@ [payload_similarity |-> Half]

\* mutant: the thresholds are exclusive
get_assessment_exclusive(confidence_score) ==
    IF RGt(confidence_score, Tenths(8)) THEN "highly_coordinated"
    ELSE IF RGt(confidence_score, Tenths(6)) THEN "likely_coordinated"
    ELSE IF RGt(confidence_score, Tenths(4)) THEN "possibly_coordinated"
    ELSE IF RGt(confidence_score, Tenths(2)) THEN "likely_coincidental"
    ELSE "coincidental"

get_assessment(confidence_score) ==
    IF RGeq(confidence_score, Tenths(8)) THEN "highly_coordinated"
    ELSE IF RGeq(confidence_score, Tenths(6)) THEN "likely_coordinated"
    ELSE IF RGeq(confidence_score, Tenths(4)) THEN "possibly_coordinated"
    ELSE IF RGeq(confidence_score, Tenths(2)) THEN "likely_coincidental"
    ELSE "coincidental"

generate_reasoning(evidence_scores, confidence_score) ==
    [confidence_score |-> confidence_score,
     strong |-> {k \in DOMAIN evidence_scores : RGt(evidence_scores[k], Tenths(7))},
     weak |-> {k \in DOMAIN evidence_scores : RLt(evidence_scores[k], Tenths(3))},
     assessment |-> get_assessment(confidence_score)]

calculate_coordination_score(s, t, has_llm, reply, body_fails) ==
    LET s1 == add_processing_step(s, "confidence_scoring", t)
        evidence_scores == extract_evidence_scores(s1)
        confidence_score ==
            IF has_llm THEN llm_confidence_scoring(evidence_scores, has_llm, reply)
            ELSE statistical_confidence_scoring(evidence_scores)
    IN  IF ~body_fails
        THEN [s1 EXCEPT
                !.coordination_confidence = confidence_score,
                !.evidence_breakdown = evidence_scores,
                !.final_assessment =
                    [confidence_score |-> confidence_score,
                     evidence_scores |-> evidence_scores,
                     assessment |-> get_assessment(confidence_score),
                     reasoning |->
                         generate_reasoning(evidence_scores, confidence_score)]]
        ELSE [add_error(s1, "Confidence scoring failed", t) EXCEPT
                !.coordination_confidence = Half,
                !.evidence_breakdown = EmptyDict,
                !.final_assessment = [error |-> "e"]]

----------------------------------------------------------------------------
(* ElasticsearchEnricherAgent                                              *)

enrich_attack_sessions(s, t, body_fails) ==
    LET s1 == add_processing_step(s, "elasticsearch_enrichment", t)
        s2 == IF body_fails
              THEN add_error(s1, "Elasticsearch enrichment failed", t) ELSE s1
    IN  [s2 EXCEPT !.workflow_end_time = Some(t + 1)]

----------------------------------------------------------------------------
(* services/workflow/graph.py: the routing functions                       *)

route_after_orchestrator(s) == "pattern_analyzer"

\* mutant: the tool coordinator is never routed to
route_after_pattern_analysis_skip(s) == "confidence_scorer"

route_after_pattern_analysis(s) ==
    IF s.needs_deep_analysis THEN "tool_coordinator" ELSE "confidence_scorer"

route_after_tool_coordination(s) == "confidence_scorer"

route_after_confidence_scoring(s) ==
    IF s.analysis_depth = "deep" THEN "elasticsearch_enricher" ELSE "end"

----------------------------------------------------------------------------
(* The workflow run: create_coordination_analysis_workflow and             *)
(* run_coordination_analysis.  Each node is one action; the engine runs    *)
(* the node named by `node` and follows the conditional edge.              *)

Running == [status |-> "running", result |-> EmptyDict]
Raised == [status |-> "raised", result |-> EmptyDict]
Returned(s) == [status |-> "returned", result |-> to_result_dict(s)]

\* run_coordination_analysis compiles the graph without a checkpointer and
\* the node functions return what the agent returns: no step of a run calls
\* WorkflowStateManager.create_checkpoint, so checkpoint stays as it is.
InitWorkflow ==
    /\ \E sessions \in Batches, depth \in Depths :
          state = CoordinationAnalysisState(sessions, depth)
    /\ llm \in BOOLEAN
    /\ node = "orchestrator"
    /\ path = <<>>
    /\ now = 0
    /\ outcome = Running
    /\ checkpoint = None

\* the node raised: ainvoke raises, run_coordination_analysis logs and re-raises
OrchestratorNode ==
    /\ node = "orchestrator"
    /\ path' = Append(path, node)
    /\ now' = now + 1
    /\ IF should_deep_analyze_raises(state.attack_sessions)
       THEN /\ state' = analyze_initial_data_raised(state, now)
            /\ node' = "raised"
            /\ outcome' = Raised
       ELSE /\ state' = analyze_initial_data(state, now)
            /\ node' = route_after_orchestrator(state')
            /\ outcome' = outcome
    /\ UNCHANGED <<llm, checkpoint>>
    /\ UNCHANGED <<rlVars, taskVars, apiVars, scoreVars, cacheVars, pairVars,
                 calcVars>>

PatternAnalyzerNode ==
    /\ node = "pattern_analyzer"
    /\ \E replies \in [temporal : LlmAnalysisReplies,
                       behavioral : LlmAnalysisReplies,
                       infrastructure : LlmAnalysisReplies],
          body_fails \in BOOLEAN :
          state' = analyze_patterns(state, now, llm, replies, body_fails)
    /\ path' = Append(path, node)
    /\ now' = now + 1
    /\ node' = route_after_pattern_analysis(state')
    /\ UNCHANGED <<llm, outcome, checkpoint>>
    /\ UNCHANGED <<rlVars, taskVars, apiVars, scoreVars, cacheVars, pairVars,
                 calcVars>>

ToolCoordinatorNode ==
    /\ node = "tool_coordinator"
    /\ \E replies \in ToolReplies(SourceIps(state.attack_sessions)) :
          state' = execute_analysis_plan(state, now, replies)
    /\ path' = Append(path, node)
    /\ now' = now + 1
    /\ node' = route_after_tool_coordination(state')
    /\ UNCHANGED <<llm, outcome, checkpoint>>
    /\ UNCHANGED <<rlVars, taskVars, apiVars, scoreVars, cacheVars, pairVars,
                 calcVars>>

ConfidenceScorerNode ==
    /\ node = "confidence_scorer"
    /\ \E reply \in LlmScoreReplies, body_fails \in BOOLEAN :
          state' = calculate_coordination_score(state, now, llm, reply, body_fails)
    /\ path' = Append(path, node)
    /\ now' = now + 1
    /\ node' = route_after_confidence_scoring(state')
    /\ UNCHANGED <<llm, outcome, checkpoint>>
    /\ UNCHANGED <<rlVars, taskVars, apiVars, scoreVars, cacheVars, pairVars,
                 calcVars>>

ElasticsearchEnricherNode ==
    /\ node = "elasticsearch_enricher"
    /\ \E body_fails \in BOOLEAN :
          state' = enrich_attack_sessions(state, now, body_fails)
    /\ path' = Append(path, node)
    /\ now' = now + 1
    /\ node' = "end"
    /\ UNCHANGED <<llm, outcome, checkpoint>>
    /\ UNCHANGED <<rlVars, taskVars, apiVars, scoreVars, cacheVars, pairVars,
                 calcVars>>

\* CoordinationAnalysisState(**final_state_dict) validates
\* coordination_confidence (ge=0.0, le=1.0); then to_result_dict()
ReturnResult ==
    /\ node = "end"
    /\ IF InUnit(state.coordination_confidence)
       THEN node' = "returned" /\ outcome' = Returned(state)
       ELSE node' = "raised" /\ outcome' = Raised
    /\ UNCHANGED <<state, path, now, llm, checkpoint>>
    /\ UNCHANGED <<rlVars, taskVars, apiVars, scoreVars, cacheVars, pairVars,
                 calcVars>>

NextWorkflow ==
    \/ OrchestratorNode
    \/ PatternAnalyzerNode
    \/ ToolCoordinatorNode
    \/ ConfidenceScorerNode
    \/ ElasticsearchEnricherNode
    \/ ReturnResult

----------------------------------------------------------------------------
(* Properties of the workflow run.                                         *)

IsPrefix(s, t) == Len(s) <= Len(t) /\ \A i \in DOMAIN s : s[i] = t[i]

Terminal == {"end", "returned", "raised"}

\* the path of the routing DAG for a routing decision and a depth
DagPath(needs_deep, depth) ==
    <<"orchestrator", "pattern_analyzer">>
    \o (IF needs_deep THEN <<"tool_coordinator">> ELSE <<>>)
    \o <<"confidence_scorer">>
    \o (IF depth = "deep" THEN <<"elasticsearch_enricher">> ELSE <<>>)

\* C1: the stages of a run execute one at a time along the one path of the
\* routing DAG that needs_deep_analysis and analysis_depth select: what has
\* run is a prefix of that path, the node to run next is its next element,
\* and a run that reached the terminal has run the whole path.
C1_StagesFollowDag ==
    LET dag == DagPath(state.needs_deep_analysis, state.analysis_depth) IN
    /\ IsPrefix(path, dag)
    /\ node \notin Terminal => Len(path) < Len(dag) /\ node = dag[Len(path) + 1]
    /\ node \in {"end", "returned"} => path = dag

C1_Witness ==
    /\ node = "returned"
    /\ state.needs_deep_analysis
    /\ path = <<"orchestrator", "pattern_analyzer", "tool_coordinator",
                "confidence_scorer", "elasticsearch_enricher">>

\* C2: no stage error aborts the run: whichever stage raises, the
\* Orchestrator included, the run does not end by raising.
C2_NoStageErrorAborts == outcome.status # "raised"

ReachedTerminal ==
    /\ node \in Terminal
    /\ path = DagPath(state.needs_deep_analysis, state.analysis_depth)

C6_EndTimeIffTerminal == (state.workflow_end_time # None) <=> ReachedTerminal

StepName ==
    [orchestrator |-> "orchestrator_analysis",
     pattern_analyzer |-> "pattern_analysis",
     tool_coordinator |-> "tool_coordination",
     confidence_scorer |-> "confidence_scoring",
     elasticsearch_enricher |-> "elasticsearch_enrichment"]

StepsFollowPath(steps, nodes) ==
    /\ Len(steps) = Len(nodes)
    /\ \A i \in DOMAIN steps : steps[i].step = StepName[nodes[i]]
    /\ \A i, j \in DOMAIN steps : i < j => steps[i].at < steps[j].at

\* C7: processing_steps only grows by appending at its end, gains exactly
\* one entry per executed stage, and lists the stages in the order in which
\* they ran.
C7_StepsAppendOnly ==
    [][/\ IsPrefix(state.processing_steps, state'.processing_steps)
       /\ Len(state'.processing_steps) =
             Len(state.processing_steps) + (Len(path') - Len(path))
       /\ StepsFollowPath(state'.processing_steps, path')]_vars

C7_Witness ==
    /\ Len(state.processing_steps) = 5
    /\ state.processing_steps[5].step = "elasticsearch_enrichment"

Labels ==
    {"highly_coordinated", "likely_coordinated", "possibly_coordinated",
     "likely_coincidental", "coincidental"}

\* the buckets of the assessment table: lower bound included, upper excluded
InBucket(label, c) ==
    \/ label = "highly_coordinated" /\ RLeq(Tenths(8), c)
    \/ label = "likely_coordinated" /\ RLeq(Tenths(6), c) /\ RLt(c, Tenths(8))
    \/ label = "possibly_coordinated" /\ RLeq(Tenths(4), c) /\ RLt(c, Tenths(6))
    \/ label = "likely_coincidental" /\ RLeq(Tenths(2), c) /\ RLt(c, Tenths(4))
    \/ label = "coincidental" /\ RLt(c, Tenths(2))

\* C8: the label stored in final_assessment is the bucket of the
\* coordination_confidence stored in the same state, and of no other bucket.
C8_LabelIsBucket ==
    "assessment" \in DOMAIN state.final_assessment =>
        /\ state.final_assessment.confidence_score = state.coordination_confidence
        /\ \A label \in Labels :
              (label = state.final_assessment.assessment)
                  <=> InBucket(label, state.coordination_confidence)

\* a run whose final confidence sits exactly on a threshold
C8_Witness ==
    /\ node = "returned"
    /\ "assessment" \in DOMAIN state.final_assessment
    /\ state.coordination_confidence = Tenths(8)
    /\ state.final_assessment.assessment = "highly_coordinated"

Dimensions == {"temporal", "behavioral", "infrastructure"}

\* the LLM call of a dimension failed: its result is the fallback with the
\* error in it
LlmFailedFor(dim) ==
    /\ dim \in DOMAIN state.correlation_results
    /\ DictGet(state.correlation_results[dim], "method", "none") = "fallback"
    /\ "error" \in DOMAIN state.correlation_results[dim]

\* C16: when the LLM call of a dimension errors, that dimension's sub-score
\* is 0.5 with method fallback and an error entry is recorded in the state's
\* errors list.
C16_LlmFailureRecorded ==
    \A dim \in Dimensions :
        LlmFailedFor(dim) => state.errors # <<>>

\* the instants of the timestamps that parse, sorted
SortedInstants(sessions) ==
    LET parsed == SelectSeq(sessions, LAMBDA x : x.timestamp.kind # "bad")
    IN  SortSeq([i \in DOMAIN parsed |-> parsed[i].timestamp.t],
                LAMBDA a, b : a < b)

ShortGaps(sorted) ==
    {i \in 1..(Len(sorted) - 1) : sorted[i + 1] - sorted[i] < 300}

\* at least 3 sessions, 2 addresses, 3 parseable timestamps, and more than
\* half of the consecutive intervals shorter than 300 seconds
DeepCondition(sessions) ==
    /\ Len(sessions) >= 3
    /\ Cardinality({sessions[i].source_ip : i \in DOMAIN sessions}) >= 2
    /\ Len(SortedInstants(sessions)) >= 3
    /\ 2 * Cardinality(ShortGaps(SortedInstants(sessions)))
          > Len(SortedInstants(sessions)) - 1

\* C17: once the Orchestrator has run, needs_deep_analysis is true if and
\* only if the batch has at least 3 sessions, 2 distinct source addresses,
\* 3 parseable timestamps and more than half of the sorted timestamps'
\* consecutive intervals under 300 seconds.
C17_DeepIffCondition ==
    path # <<>> =>
        (state.needs_deep_analysis <=> DeepCondition(state.attack_sessions))

\* C18: after each completed stage a checkpoint of the state has been
\* written before the next stage starts: the latest checkpoint reflects the
\* last completed stage.
C18_CheckpointAfterEachStage ==
    path # <<>> =>
        /\ checkpoint # None
        /\ checkpoint[1].processing_steps = state.processing_steps

----------------------------------------------------------------------------
(* services/database/rate_limiting.py: RateLimiter.check_rate_limit for    *)
(* one key.  The sorted set maps member str(current_time) to the score     *)
(* current_time, so it is modelled as a function from members to scores.   *)

\* bounds of the model
MaxTime == 3
MaxCalls == 4
MaxLimit == 2
MaxWindow == 2

\* ZADD key {member: score}: a member already present has its score replaced
zadd(zset, member, score) == DictSet(zset, member, score)

\* ZREMRANGEBYSCORE key lo hi
zremrangebyscore(zset, lo, hi) ==
    [m \in {x \in DOMAIN zset : ~(lo <= zset[x] /\ zset[x] <= hi)} |-> zset[m]]

zcard(zset) == Cardinality(DOMAIN zset)

\* the score of ZRANGE key 0 0 WITHSCORES, for a set that is not empty
oldest_score(zset) ==
    CHOOSE v \in {zset[m] : m \in DOMAIN zset} : \A m \in DOMAIN zset : v <= zset[m]

clean_old_entries(zset, current_time, window) ==
    zremrangebyscore(zset, 0, current_time - window)

Max(a, b) == IF a >= b THEN a ELSE b

\* mutant: an acceptance reports the slots left before its own entry
check_rate_limit_ok_before_add(zset, expire, limit, window, current_time) ==
    LET cleaned == clean_old_entries(zset, current_time, window)
        request_count == zcard(cleaned)
    IN  IF request_count >= limit
        THEN [allowed |-> FALSE,
              remaining |-> 0,
              retry_after |->
                  Max(0, IF cleaned # EmptyDict
                         THEN window - (current_time - oldest_score(cleaned))
                         ELSE 0),
              error |-> FALSE,
              zset |-> cleaned,
              expire |-> expire]
        ELSE [allowed |-> TRUE,
              remaining |-> limit - request_count,
              retry_after |-> 0,
              error |-> FALSE,
              zset |-> zadd(cleaned, current_time, current_time),
              expire |-> Some(current_time + window)]

\* the (allowed, info) pair and the sorted set and expiry check_rate_limit
\* leaves, with Redis reachable
check_rate_limit_ok(zset, expire, limit, window, current_time) ==
    LET cleaned == clean_old_entries(zset, current_time, window)
        request_count == zcard(cleaned)
    IN  IF request_count >= limit
        THEN [allowed |-> FALSE,
              remaining |-> 0,
              retry_after |->
                  Max(0, IF cleaned # EmptyDict
                         THEN window - (current_time - oldest_score(cleaned))
                         ELSE 0),
              error |-> FALSE,
              zset |-> cleaned,
              expire |-> expire]
        ELSE [allowed |-> TRUE,
              remaining |-> limit - request_count - 1,
              retry_after |-> 0,
              error |-> FALSE,
              zset |-> zadd(cleaned, current_time, current_time),
              expire |-> Some(current_time + window)]

MaxCallers == 2
Callers == 1..MaxCallers

\* a caller outside check_rate_limit
NotCalling == [pc |-> "idle", current_time |-> 0, request_count |-> 0]

\* mutant: a RedisError denies the request
check_rate_limit_failed_closed(zset, expire, limit) ==
    [allowed |-> FALSE, remaining |-> 0, retry_after |-> 0, error |-> TRUE,
     zset |-> zset, expire |-> expire]

\* RedisError: the request is allowed and the info carries the error
check_rate_limit_failed(zset, expire, limit) ==
    [allowed |-> TRUE, remaining |-> limit, retry_after |-> 0, error |-> TRUE,
     zset |-> zset, expire |-> expire]

check_rate_limit(zset, expire, limit, window, current_time, redis_ok) ==
    IF redis_ok
    THEN check_rate_limit_ok(zset, expire, limit, window, current_time)
    ELSE check_rate_limit_failed(zset, expire, limit)

RateIdle ==
    /\ rl_zset = EmptyDict
    /\ rl_expire = None
    /\ rl_time = 0
    /\ rl_limit = 0
    /\ rl_window = 0
    /\ rl_calls = <<>>
    /\ rl_caller = [c \in Callers |-> NotCalling]

InitRate ==
    /\ rl_zset = EmptyDict
    /\ rl_expire = None
    /\ rl_time = 0
    /\ rl_limit \in 1..MaxLimit
    /\ rl_window \in 1..MaxWindow
    /\ rl_calls = <<>>
    /\ rl_caller = [c \in Callers |-> NotCalling]

\* one check_rate_limit call, from its first Redis command to its return
CheckRateLimit ==
    /\ Len(rl_calls) < MaxCalls
    /\ \E redis_ok \in BOOLEAN :
          LET r == check_rate_limit(rl_zset, rl_expire, rl_limit, rl_window,
                                    rl_time, redis_ok)
          IN  /\ rl_zset' = r.zset
              /\ rl_expire' = r.expire
              /\ rl_calls' = Append(rl_calls,
                    [at |-> rl_time, redis_ok |-> redis_ok, allowed |-> r.allowed,
                     remaining |-> r.remaining, retry_after |-> r.retry_after,
                     error |-> r.error])
    /\ UNCHANGED <<rl_time, rl_limit, rl_window, rl_caller>>
    /\ UNCHANGED <<wfVars, taskVars, apiVars, scoreVars, cacheVars, pairVars,
                 calcVars>>

\* a second passes; Redis drops the key once its expiry is reached
Tick ==
    /\ rl_time < MaxTime
    /\ rl_time' = rl_time + 1
    /\ IF rl_expire # None /\ rl_expire[1] <= rl_time'
       THEN rl_zset' = EmptyDict /\ rl_expire' = None
       ELSE UNCHANGED <<rl_zset, rl_expire>>
    /\ UNCHANGED <<rl_limit, rl_window, rl_calls, rl_caller>>
    /\ UNCHANGED <<wfVars, taskVars, apiVars, scoreVars, cacheVars, pairVars,
                 calcVars>>

\* the calls accepted in the window of rl_window seconds that starts at w
AcceptedIn(w) ==
    {i \in DOMAIN rl_calls :
        /\ rl_calls[i].allowed
        /\ w <= rl_calls[i].at
        /\ rl_calls[i].at < w + rl_window}

\* C4: with a healthy backend (no call met a RedisError), the calls accepted
\* within any rolling window of rl_window seconds number at most rl_limit,
\* calls arriving within the same second included.
C4_AtMostLimitPerWindow ==
    (\A i \in DOMAIN rl_calls : ~rl_calls[i].error)
        => \A w \in 0..MaxTime : Cardinality(AcceptedIn(w)) <= rl_limit

\* C20: when the rate-limit backend is unavailable, check_rate_limit
\* accepts the request and reports the failure in the info it returns, for
\* every limit and window and whatever the key holds.
C20_FailOpen ==
    \A i \in DOMAIN rl_calls :
        ~rl_calls[i].redis_ok
            => /\ rl_calls[i].allowed
               /\ rl_calls[i].error
               /\ rl_calls[i].remaining = rl_limit
               /\ rl_calls[i].retry_after = 0

\* a call was denied at the limit and the next call, made with the backend
\* down, was accepted
C20_Witness ==
    \E i \in DOMAIN rl_calls :
        /\ i > 1
        /\ rl_calls[i - 1].redis_ok /\ ~rl_calls[i - 1].allowed
        /\ ~rl_calls[i].redis_ok /\ rl_calls[i].allowed /\ rl_calls[i].error

(* check_rate_limit command by command, for callers that share the key:    *)
(* every Redis command is one step, and the steps of different callers     *)
(* interleave.  Redis is reachable throughout.                             *)

\* current_time = self._get_current_timestamp()
BeginCall(c) ==
    /\ rl_caller[c].pc = "idle"
    /\ Len(rl_calls)
         + Cardinality({d \in Callers : rl_caller[d].pc # "idle"}) < MaxCalls
    /\ rl_caller' = [rl_caller EXCEPT ![c] =
          [pc |-> "clean", current_time |-> rl_time, request_count |-> 0]]
    /\ UNCHANGED <<rl_zset, rl_expire, rl_time, rl_limit, rl_window, rl_calls>>
    /\ UNCHANGED <<wfVars, taskVars, apiVars, scoreVars, cacheVars, pairVars,
                 calcVars>>

\* self._clean_old_entries(redis_client, key, window), which reads the
\* clock again
CleanStep(c) ==
    /\ rl_caller[c].pc = "clean"
    /\ rl_zset' = clean_old_entries(rl_zset, rl_time, rl_window)
    /\ rl_caller' = [rl_caller EXCEPT ![c].pc = "zcard"]
    /\ UNCHANGED <<rl_expire, rl_time, rl_limit, rl_window, rl_calls>>
    /\ UNCHANGED <<wfVars, taskVars, apiVars, scoreVars, cacheVars, pairVars,
                 calcVars>>

\* request_count = redis_client.zcard(key), and the branch on it
CountStep(c) ==
    /\ rl_caller[c].pc = "zcard"
    /\ rl_caller' = [rl_caller EXCEPT
          ![c].request_count = zcard(rl_zset),
          ![c].pc = IF zcard(rl_zset) >= rl_limit THEN "zrange" ELSE "zadd"]
    /\ UNCHANGED <<rl_zset, rl_expire, rl_time, rl_limit, rl_window, rl_calls>>
    /\ UNCHANGED <<wfVars, taskVars, apiVars, scoreVars, cacheVars, pairVars,
                 calcVars>>

\* redis_client.zrange(key, 0, 0, withscores=True) and the denial
DenyStep(c) ==
    /\ rl_caller[c].pc = "zrange"
    /\ rl_calls' = Append(rl_calls,
          [at |-> rl_caller[c].current_time, redis_ok |-> TRUE,
           allowed |-> FALSE, remaining |-> 0,
           retry_after |->
               Max(0, IF rl_zset # EmptyDict
                      THEN rl_window
                             - (rl_caller[c].current_time - oldest_score(rl_zset))
                      ELSE 0),
           error |-> FALSE])
    /\ rl_caller' = [rl_caller EXCEPT ![c] = NotCalling]
    /\ UNCHANGED <<rl_zset, rl_expire, rl_time, rl_limit, rl_window>>
    /\ UNCHANGED <<wfVars, taskVars, apiVars, scoreVars, cacheVars, pairVars,
                 calcVars>>

\* redis_client.zadd(key, {str(current_time): current_time})
AddStep(c) ==
    /\ rl_caller[c].pc = "zadd"
    /\ rl_zset' = zadd(rl_zset, rl_caller[c].current_time,
                       rl_caller[c].current_time)
    /\ rl_caller' = [rl_caller EXCEPT ![c].pc = "expire"]
    /\ UNCHANGED <<rl_expire, rl_time, rl_limit, rl_window, rl_calls>>
    /\ UNCHANGED <<wfVars, taskVars, apiVars, scoreVars, cacheVars, pairVars,
                 calcVars>>

\* redis_client.expire(key, window) and the acceptance
ExpireStep(c) ==
    /\ rl_caller[c].pc = "expire"
    /\ rl_expire' = IF rl_zset # EmptyDict THEN Some(rl_time + rl_window)
                    ELSE rl_expire
    /\ rl_calls' = Append(rl_calls,
          [at |-> rl_caller[c].current_time, redis_ok |-> TRUE,
           allowed |-> TRUE,
           remaining |-> rl_limit - rl_caller[c].request_count - 1,
           retry_after |-> 0, error |-> FALSE])
    /\ rl_caller' = [rl_caller EXCEPT ![c] = NotCalling]
    /\ UNCHANGED <<rl_zset, rl_time, rl_limit, rl_window>>
    /\ UNCHANGED <<wfVars, taskVars, apiVars, scoreVars, cacheVars, pairVars,
                 calcVars>>

\* C33: when check_rate_limit calls for one key run concurrently and
\* their purge, count and add commands interleave arbitrarily, the calls
\* accepted within one window of rl_window seconds never exceed rl_limit.
C33_AtMostLimitWhenInterleaved ==
    \A w \in 0..MaxTime :
        Cardinality({i \in DOMAIN rl_calls :
                        /\ rl_calls[i].allowed
                        /\ rl_calls[i].at \in w..(w + rl_window - 1)})
            <= rl_limit

\* the entries of the key that lie within the window ending now
InWindow(zset, current_time, window) ==
    {m \in DOMAIN zset : zset[m] > current_time - window}

\* C34: every denial carries remaining = 0 and a retry_after within
\* 0..window equal to window - (now - score of the oldest entry still in
\* the window), and adds no entry; every acceptance made with n entries in
\* the window carries remaining = L - n - 1 >= 0 and retry_after = 0.
C34_DenialAndAcceptanceInfo ==
    [][(Len(rl_calls') = Len(rl_calls) + 1 /\ rl_calls'[Len(rl_calls')].redis_ok)
         => LET call == rl_calls'[Len(rl_calls')]
                entries == InWindow(rl_zset, rl_time, rl_window)
                n == Cardinality(entries)
            IN  IF call.allowed
                THEN /\ call.remaining = rl_limit - n - 1
                     /\ call.remaining >= 0
                     /\ call.retry_after = 0
                ELSE /\ call.remaining = 0
                     /\ call.retry_after >= 0
                     /\ call.retry_after <= rl_window
                     /\ \E m \in entries :
                           /\ \A o \in entries : rl_zset[m] <= rl_zset[o]
                           /\ call.retry_after
                                 = rl_window - (rl_time - rl_zset[m])
                     /\ DOMAIN rl_zset' \subseteq DOMAIN rl_zset
                     /\ DOMAIN rl_zset' = entries]_vars

\* an acceptance that took the last slot, a later acceptance after the
\* window moved on, and a denial told to retry in one second
C34_Witness ==
    \E i, j \in DOMAIN rl_calls :
        /\ rl_calls[i].redis_ok /\ rl_calls[i].allowed
        /\ rl_calls[i].remaining = 0
        /\ rl_calls[j].redis_ok /\ ~rl_calls[j].allowed
        /\ rl_calls[j].at > rl_calls[i].at
        /\ rl_calls[j].retry_after = 1
        /\ rl_window = 2

----------------------------------------------------------------------------
(* services/workers/tasks.py: analyze_coordination_task, one action per    *)
(* await (health_check, analyze_coordination, the callback POST) and one   *)
(* for the except handler; process_bulk_analysis_task around it.           *)

NoResult == [status |-> "none", coordination_confidence |-> Zero]

\* update_task_progress(progress, status)
update_task_progress(log, percent, tag) ==
    Append(log, [progress |-> percent, status |-> tag])

\* send_callback_notification: the POST is recorded; it raises unless the
\* reply is 2xx
send_callback_notification(log, data, delivered) ==
    Append(log, [data |-> data, delivered |-> delivered])

TaskIdle ==
    /\ task = [pc |-> "idle"]
    /\ posts = <<>>
    /\ progress = <<>>

\* The task is queued directly (analyze_coordination_task) or through
\* process_bulk_analysis_task, which queues it and waits for its result.
InitTask ==
    /\ \E callback_url \in BOOLEAN, depth \in Depths, bulk \in BOOLEAN :
          task = [pc |-> IF bulk THEN "bulk_start" ELSE "start",
                  bulk |-> bulk,
                  callback_url |-> callback_url,
                  analysis_depth |-> depth,
                  llm_healthy |-> "unknown",
                  analysis_result |-> NoResult,
                  returned |-> NoResult,
                  bulk_returned |-> NoResult]
    /\ posts = <<>>
    /\ progress = <<>>

\* process_bulk_analysis_task lines 197-204: progress 10, apply_async
BulkStart ==
    /\ task.pc = "bulk_start"
    /\ task' = [task EXCEPT !.pc = "start"]
    /\ progress' = update_task_progress(progress, 10, "PROGRESS")
    /\ UNCHANGED posts
    /\ UNCHANGED <<wfVars, rlVars, apiVars, scoreVars, cacheVars, pairVars,
                 calcVars>>

\* lines 70-87: progress 10, the LLM client is opened, health_check()
TaskHealthCheck ==
    /\ task.pc = "start"
    /\ \E healthy \in BOOLEAN :
          task' = [task EXCEPT !.pc = IF healthy THEN "analyze" ELSE "except",
                               !.llm_healthy = IF healthy THEN "yes" ELSE "no"]
    /\ progress' = update_task_progress(progress, 10, "PROGRESS")
    /\ UNCHANGED posts
    /\ UNCHANGED <<wfVars, rlVars, apiVars, scoreVars, cacheVars, pairVars,
                 calcVars>>

\* lines 89-114: progress 20, analyze_coordination, progress 80, the
\* analysis_result is built with status completed, progress 90; without a
\* callback_url the task goes on to progress 100 and returns
TaskAnalyze ==
    /\ task.pc = "analyze"
    /\ \E reply \in LlmAnalysisReplies :
          IF ~reply.ok
          THEN /\ task' = [task EXCEPT !.pc = "except"]
               /\ progress' = update_task_progress(progress, 20, "PROGRESS")
          ELSE LET result == [status |-> "completed",
                              coordination_confidence |->
                                  reply.coordination_confidence]
                   p90 == update_task_progress(
                              update_task_progress(
                                  update_task_progress(progress, 20, "PROGRESS"),
                                  80, "PROGRESS"),
                              90, "PROGRESS")
               IN  IF task.callback_url
                   THEN /\ task' = [task EXCEPT !.pc = "callback",
                                                !.analysis_result = result]
                        /\ progress' = p90
                   ELSE /\ task' = [task EXCEPT !.pc = "returned",
                                                !.analysis_result = result,
                                                !.returned = result]
                        /\ progress' = update_task_progress(p90, 100, "SUCCESS")
    /\ UNCHANGED posts
    /\ UNCHANGED <<wfVars, rlVars, apiVars, scoreVars, cacheVars, pairVars,
                 calcVars>>

\* lines 117-122: the callback POST; send_callback_notification re-raises
\* what the POST raised
TaskCallback ==
    /\ task.pc = "callback"
    /\ \E delivered \in BOOLEAN :
          /\ posts' = send_callback_notification(
                          posts, task.analysis_result, delivered)
          /\ IF delivered
             THEN /\ task' = [task EXCEPT !.pc = "returned",
                                          !.returned = task.analysis_result]
                  /\ progress' = update_task_progress(progress, 100, "SUCCESS")
             ELSE /\ task' = [task EXCEPT !.pc = "except"]
                  /\ UNCHANGED progress
    /\ UNCHANGED <<wfVars, rlVars, apiVars, scoreVars, cacheVars, pairVars,
                 calcVars>>

FailedResult == [status |-> "failed", coordination_confidence |-> Zero]

\* lines 138-166: the except handler builds the failed result, posts it to
\* the callback_url if there is one, and re-raises
TaskExcept ==
    /\ task.pc = "except"
    /\ task' = [task EXCEPT !.pc = "raised", !.returned = FailedResult]
    /\ IF task.callback_url
       THEN \E delivered \in BOOLEAN :
               posts' = send_callback_notification(posts, FailedResult, delivered)
       ELSE UNCHANGED posts
    /\ UNCHANGED progress
    /\ UNCHANGED <<wfVars, rlVars, apiVars, scoreVars, cacheVars, pairVars,
                 calcVars>>

\* process_bulk_analysis_task lines 206-246: result.get() returns the
\* task's result, or raises what the task raised; then the except handler
\* posts a failed result of its own and re-raises
BulkFinish ==
    /\ task.bulk
    /\ \/ /\ task.pc = "returned"
          /\ task' = [task EXCEPT !.pc = "bulk_returned",
                                  !.bulk_returned = task.returned]
          /\ progress' = update_task_progress(progress, 100, "SUCCESS")
          /\ UNCHANGED posts
       \/ /\ task.pc = "raised"
          /\ task' = [task EXCEPT !.pc = "bulk_raised",
                                  !.bulk_returned = FailedResult]
          /\ IF task.callback_url
             THEN \E delivered \in BOOLEAN :
                     posts' = send_callback_notification(
                                  posts, FailedResult, delivered)
             ELSE UNCHANGED posts
          /\ UNCHANGED progress
    /\ UNCHANGED <<wfVars, rlVars, apiVars, scoreVars, cacheVars, pairVars,
                 calcVars>>

TaskFinished == task.pc \in {"returned", "raised", "bulk_returned", "bulk_raised"}

\* C5: a failure of the callback POST never changes the outcome: once the
\* analysis has produced its result with status completed, the finished task
\* yields that result, status completed included.
C5_CallbackFailureKeepsOutcome ==
    (TaskFinished /\ task.analysis_result.status = "completed")
        => /\ task.returned = task.analysis_result
           /\ task.returned.status = "completed"

\* C15: when the LLM health probe fails, the background processing still
\* runs to its end and finishes with status completed, not failed.
C15_HealthFailureStillCompletes ==
    (TaskFinished /\ task.llm_healthy = "no")
        => task.returned.status = "completed"

\* the task, and the bulk task around it if there is one, have ended
TaskAllDone ==
    /\ TaskFinished
    /\ task.bulk => task.pc \in {"bulk_returned", "bulk_raised"}

\* C19: for an analysis with a callback URL exactly one callback POST is
\* attempted, carrying the terminal Result; no second POST is ever sent,
\* also when the first POST fails or the analysis runs as a bulk batch.
C19_ExactlyOneCallback ==
    /\ task.pc # "idle" => Len(posts) <= 1
    /\ (TaskAllDone /\ task.callback_url)
          => /\ Len(posts) = 1
             /\ posts[1].data = task.returned

----------------------------------------------------------------------------
(* services/api/routers/coordination.py: analyze_coordination (Submit),    *)
(* get_analysis_results (Get) and the background job.                      *)

\* bounds of the model
MaxIds == 2
MaxRequestSessions == 3

\* CoordinationRequest.attack_sessions: max_items
MaxItems == 1000
\* settings.analysis_max_sessions
AnalysisMaxSessions == 1000

\* BulkAnalysisRequest.session_batches: max_items
MaxBatchItems == 100

\* the number of sessions of a request: small ones, and the ones around
\* max_items
SessionCounts == (0..MaxRequestSessions) \cup {MaxItems, MaxItems + 1}

\* requests of every size with the default depth and no callback, and
\* two-session requests with every depth and callback_url
Requests ==
    {[sessions |-> n, analysis_depth |-> "standard", callback_url |-> "none"] :
        n \in SessionCounts}
    \cup [sessions : {2},
          analysis_depth : Depths \cup {"full"},
          callback_url : {"none", "https://sink", "ftp://sink"}]

\* settings.analysis_max_sessions: the default, a smaller and a larger one
ConfiguredMaxSessions == {MaxRequestSessions, AnalysisMaxSessions, MaxItems + 1}

\* the pydantic validation of CoordinationRequest (min_items, max_items,
\* validate_session_count, the two patterns) and the checks of
\* analyze_coordination
valid_request(request, configured) ==
    /\ request.sessions >= 2
    /\ request.sessions <= MaxItems
    /\ request.sessions <= configured
    /\ request.analysis_depth \in Depths
    /\ request.callback_url \in {"none", "https://sink"}

\* A bulk request: n batches, batch i holding i % 3 sessions; the model of
\* BulkAnalysisRequest validates the number of batches and nothing else.
BulkRequests ==
    {[session_batches |-> [i \in 1..n |-> i % 3], analysis_depth |-> depth] :
        n \in {0, 1, 2, MaxBatchItems, MaxBatchItems + 1},
        depth \in {"standard", "full"}}

valid_bulk_request(request) ==
    /\ Len(request.session_batches) >= 1
    /\ Len(request.session_batches) <= MaxBatchItems

\* mutant: one analysis id for the whole call
bulk_analysis_one_id(request, minted) ==
    LET n == Len(request.session_batches) IN
    [analysis_ids |-> [i \in 1..n |-> minted + 1],
     status |-> "queued",
     batch_count |-> n,
     jobs |-> [i \in 1..n |->
                 [analysis_id |-> minted + 1,
                  sessions |-> request.session_batches[i],
                  analysis_depth |-> request.analysis_depth,
                  kind |-> "bulk"]]]

\* bulk_analysis for a valid request: the response and the background jobs
\* added, one uuid4 per batch (minted ids were handed out before)
bulk_analysis(request, minted) ==
    LET n == Len(request.session_batches) IN
    [analysis_ids |-> [i \in 1..n |-> minted + i],
     status |-> "queued",
     batch_count |-> n,
     jobs |-> [i \in 1..n |->
                 [analysis_id |-> minted + i,
                  sessions |-> request.session_batches[i],
                  analysis_depth |-> request.analysis_depth,
                  kind |-> "bulk"]]]

\* the mock response of get_analysis_results
mock_evidence ==
    [temporal_correlation |-> Tenths(8),
     behavioral_similarity |-> Tenths(7),
     infrastructure_clustering |-> Tenths(6),
     geographic_proximity |-> Tenths(5),
     payload_similarity |-> Tenths(9)]

get_analysis_results(analysis_id) ==
    [analysis_id |-> analysis_id,
     status |-> "completed",
     coordination_confidence |-> Some(Rat(3, 4)),
     evidence |-> Some(mock_evidence),
     enrichment_applied |-> TRUE]

\* what process_coordination_analysis leaves behind: it logs "Analysis
\* completed"; it runs no workflow and stores no result
process_coordination_analysis(job) ==
    [status |-> "completed", coordination_confidence |-> None, evidence |-> None]

\* process_bulk_analysis: the same, for a batch of a bulk call
process_bulk_analysis(job) ==
    [status |-> "completed", coordination_confidence |-> None, evidence |-> None]

ApiIdle ==
    /\ next_id = 0
    /\ jobs = <<>>
    /\ processed = EmptyDict
    /\ last_get = None
    /\ max_sessions = 0
    /\ last_submit = None
    /\ last_bulk = None

InitApi ==
    /\ next_id = 0
    /\ jobs = <<>>
    /\ processed = EmptyDict
    /\ last_get = None
    /\ max_sessions \in ConfiguredMaxSessions
    /\ last_submit = None
    /\ last_bulk = None

\* POST /analyze: a request that fails validation gets an error reply and
\* changes nothing
Submit ==
    /\ next_id < MaxIds
    /\ \E request \in Requests :
          IF valid_request(request, max_sessions)
          THEN /\ next_id' = next_id + 1
               /\ jobs' = Append(jobs,
                     [analysis_id |-> next_id + 1,
                      sessions |-> request.sessions,
                      analysis_depth |-> request.analysis_depth,
                      kind |-> "single"])
               /\ last_submit' = Some([request |-> request,
                                       accepted |-> TRUE,
                                       analysis_id |-> Some(next_id + 1),
                                       status |-> "queued"])
          ELSE /\ UNCHANGED <<next_id, jobs>>
               /\ last_submit' = Some([request |-> request,
                                       accepted |-> FALSE,
                                       analysis_id |-> None,
                                       status |-> "error"])
    /\ UNCHANGED <<processed, last_get, max_sessions, last_bulk>>
    /\ UNCHANGED <<wfVars, rlVars, taskVars, scoreVars, cacheVars, pairVars,
                 calcVars>>

\* POST /bulk
BulkSubmit ==
    /\ next_id < MaxIds
    /\ \E request \in BulkRequests :
          IF valid_bulk_request(request)
          THEN LET r == bulk_analysis(request, next_id) IN
               /\ next_id' = next_id + Len(r.analysis_ids)
               /\ jobs' = jobs \o r.jobs
               /\ last_bulk' = Some([request |-> request,
                                     accepted |-> TRUE,
                                     analysis_ids |-> r.analysis_ids,
                                     status |-> r.status,
                                     batch_count |-> r.batch_count])
          ELSE /\ UNCHANGED <<next_id, jobs>>
               /\ last_bulk' = Some([request |-> request,
                                     accepted |-> FALSE,
                                     analysis_ids |-> <<>>,
                                     status |-> "error",
                                     batch_count |-> 0])
    /\ UNCHANGED <<processed, last_get, max_sessions, last_submit>>
    /\ UNCHANGED <<wfVars, rlVars, taskVars, scoreVars, cacheVars, pairVars,
                 calcVars>>

\* FastAPI runs the background tasks in the order they were added
RunJob ==
    /\ jobs # <<>>
    /\ processed' = DictSet(processed, Head(jobs).analysis_id,
                            IF Head(jobs).kind = "bulk"
                            THEN process_bulk_analysis(Head(jobs))
                            ELSE process_coordination_analysis(Head(jobs)))
    /\ jobs' = Tail(jobs)
    /\ UNCHANGED <<next_id, last_get, max_sessions, last_submit, last_bulk>>
    /\ UNCHANGED <<wfVars, rlVars, taskVars, scoreVars, cacheVars, pairVars,
                 calcVars>>

\* GET /{analysis_id}, for an id that was minted or one that never was
Get ==
    /\ \E analysis_id \in 1..(MaxIds + 1) :
          last_get' = Some(get_analysis_results(analysis_id))
    /\ UNCHANGED <<next_id, jobs, processed, max_sessions, last_submit, last_bulk>>
    /\ UNCHANGED <<wfVars, rlVars, taskVars, scoreVars, cacheVars, pairVars,
                 calcVars>>

\* C10: a Get for an id that Submit returned answers with the same id, and
\* once the analysis of that id has completed, the confidence and evidence of
\* the answer are the ones the analysis run produced.
C10_GetReturnsOwnResult ==
    (last_get # None /\ last_get[1].analysis_id \in 1..next_id)
        => LET result == last_get[1] IN
           /\ result.analysis_id \in 1..next_id
           /\ result.analysis_id \in DOMAIN processed
                => /\ result.coordination_confidence =
                          processed[result.analysis_id].coordination_confidence
                   /\ result.evidence = processed[result.analysis_id].evidence

\* C11: a Get for an id that Submit never returned answers not_found and
\* never a Result.
C11_UnknownIdNotFound ==
    (last_get # None /\ last_get[1].analysis_id \notin 1..next_id)
        => /\ last_get[1].status = "not_found"
           /\ last_get[1].coordination_confidence = None

\* C12: Get reports the current status: it never answers completed or
\* failed for an analysis whose background job has not run to its end.
C12_GetReportsCurrentStatus ==
    (/\ last_get # None
     /\ last_get[1].analysis_id \in 1..next_id
     /\ last_get[1].analysis_id \notin DOMAIN processed)
        => last_get[1].status \notin {"completed", "failed"}

\* what the contract accepts: 2 to MaxSessions sessions, a known depth, and
\* no callback_url or an http/https one
Acceptable(request, configured) ==
    /\ 2 <= request.sessions
    /\ request.sessions <= configured
    /\ request.analysis_depth \in {"minimal", "standard", "deep"}
    /\ request.callback_url \in {"none", "https://sink"}

\* C13: Submit accepts a request if and only if it has 2 to MaxSessions
\* sessions (for every configured MaxSessions), a known analysis_depth and
\* no or an http/https callback_url; a rejected request mints no id.
C13_SubmitAcceptsIffValid ==
    last_submit # None =>
        /\ last_submit[1].accepted
              <=> Acceptable(last_submit[1].request, max_sessions)
        /\ ~last_submit[1].accepted => last_submit[1].analysis_id = None

Distinct(seq) == \A i, j \in DOMAIN seq : i # j => seq[i] # seq[j]

\* C14: a bulk call with n batches, 1 <= n <= 100, answers with n pairwise
\* distinct new analysis ids and batch_count n, and enqueues one background
\* job per id in batch order, each for its own batch; a call with more
\* batches is rejected and enqueues nothing.
C14_BulkOneJobPerBatch ==
    [][last_bulk' # last_bulk =>
        LET call == last_bulk'[1]
            batches == call.request.session_batches
            n == Len(batches)
        IN  IF 1 <= n /\ n <= 100
            THEN /\ call.accepted
                 /\ Len(call.analysis_ids) = n
                 /\ call.batch_count = n
                 /\ Distinct(call.analysis_ids)
                 /\ \A i \in 1..n : call.analysis_ids[i] \notin 1..next_id
                 /\ Len(jobs') = Len(jobs) + n
                 /\ SubSeq(jobs', 1, Len(jobs)) = jobs
                 /\ \A i \in 1..n :
                       /\ jobs'[Len(jobs) + i].analysis_id = call.analysis_ids[i]
                       /\ jobs'[Len(jobs) + i].sessions = batches[i]
            ELSE /\ ~call.accepted
                 /\ call.analysis_ids = <<>>
                 /\ jobs' = jobs
                 /\ next_id' = next_id]_vars

C14_Witness ==
    /\ last_bulk # None
    /\ last_bulk[1].accepted
    /\ last_bulk[1].batch_count = MaxBatchItems
    /\ Len(jobs) = MaxBatchItems
    /\ next_id = MaxBatchItems

----------------------------------------------------------------------------
(* Two confidence-scoring runs side by side: calculate_coordination_score  *)
(* applied to two states that differ in their evidence.                    *)

ScoreInputs ==
    {[CoordinationAnalysisState(<<>>, "standard") EXCEPT
        !.correlation_results =
            [temporal |-> [correlation_score |-> t],
             behavioral |-> [similarity_score |-> b],
             infrastructure |-> [clustering_score |-> Half]],
        !.enrichment_data = e] :
      t \in LlmConfidences, b \in LlmConfidences,
      e \in {EmptyDict}
            \cup {[infrastructure_clustering |-> Tenths(8),
                   geographic_proximity |-> g,
                   threat_correlation |-> Tenths(MockThreatTenths)] :
                    g \in {Zero, Tenths(8)}}}

ScoreIdle == runs = <<>>

\* a run the scorer has not been called on yet
NotScored(s) ==
    [state |-> s, scored |-> FALSE, by |-> "none", has_llm |-> FALSE,
     reply |-> [kind |-> "noparse", score |-> Zero]]

InitScore ==
    \E s1 \in ScoreInputs, s2 \in ScoreInputs :
        runs = <<NotScored(s1), NotScored(s2)>>

\* which computation gave the score: the LLM's parsed score, or the
\* weighted mean (no LLM, the call failed, or nothing could be parsed)
ScoredBy(has_llm, reply) ==
    IF has_llm /\ reply.kind = "score" THEN "llm" ELSE "weighted_mean"

ScoreRun ==
    \E i \in DOMAIN runs, has_llm \in BOOLEAN, reply \in LlmScoreReplies :
        /\ ~runs[i].scored
        /\ runs' = [runs EXCEPT ![i] =
              [state |-> calculate_coordination_score(
                             runs[i].state, 0, has_llm, reply, FALSE),
               scored |-> TRUE,
               by |-> ScoredBy(has_llm, reply),
               has_llm |-> has_llm,
               reply |-> reply]]
        /\ UNCHANGED <<wfVars, rlVars, taskVars, apiVars, cacheVars, pairVars,
                 calcVars>>

Scored(i) == runs # <<>> /\ runs[i].scored

RunWeightedSum(i) == weighted_sum(runs[i].state.evidence_breakdown)

RunConfidence(i) == runs[i].state.coordination_confidence

\* C9 as stated: of two completed runs, the one whose evidence has the larger
\* weighted sum never has the smaller coordination_confidence, whether the
\* score comes from the weighted mean or from the LLM scorer.
C9_MonotonicInWeightedSum ==
    runs # <<>> =>
        \A i \in DOMAIN runs, j \in DOMAIN runs :
            (Scored(i) /\ Scored(j) /\ RGt(RunWeightedSum(i), RunWeightedSum(j)))
                => RGeq(RunConfidence(i), RunConfidence(j))

SameDimensions(i, j) ==
    DOMAIN runs[i].state.evidence_breakdown = DOMAIN runs[j].state.evidence_breakdown

\* C9 amended: of two completed runs whose scores both come from the
\* weighted mean and whose evidence has the same dimensions, the one with
\* the larger weighted sum never has the smaller coordination_confidence.
C9_MonotonicForWeightedMean ==
    runs # <<>> =>
        \A i \in DOMAIN runs, j \in DOMAIN runs :
            (/\ Scored(i) /\ Scored(j)
             /\ runs[i].by = "weighted_mean" /\ runs[j].by = "weighted_mean"
             /\ SameDimensions(i, j)
             /\ RGt(RunWeightedSum(i), RunWeightedSum(j)))
                => RGeq(RunConfidence(i), RunConfidence(j))

C9_Witness ==
    /\ Scored(1) /\ Scored(2)
    /\ runs[1].by = "weighted_mean" /\ runs[2].by = "weighted_mean"
    /\ SameDimensions(1, 2)
    /\ DOMAIN runs[1].state.evidence_breakdown # {}
    /\ RGt(RunWeightedSum(1), RunWeightedSum(2))
    /\ RGt(RunConfidence(1), RunConfidence(2))

----------------------------------------------------------------------------
(* Failure of a stage body: ToolCoordinator, ConfidenceScorer, Enricher.   *)

\* the stage about to run, applied with a failing body, gives s2
ToolBodyFails(replies) ==
    synthesize_results_raises(
        execute_tools(determine_tools_needed(state), state.attack_sessions,
                      replies))

OneErrorAppended(s, s2) ==
    /\ Len(s2.errors) = Len(s.errors) + 1
    /\ IsPrefix(s.errors, s2.errors)

FieldsUnchangedBut(s, s2, changed) ==
    /\ DOMAIN s2 = DOMAIN s
    /\ \A f \in DOMAIN s \ changed : s2[f] = s[f]

StageNodes ==
    {"orchestrator", "pattern_analyzer", "tool_coordinator",
     "confidence_scorer", "elasticsearch_enricher", "end"}

\* what a failed body of the stage at `node` leaves, with the fields in
\* `also` allowed to change besides errors and the stage's own outputs
FailedBodyKeeps(also) ==
    /\ node = "tool_coordinator" =>
          \A replies \in ToolReplies(SourceIps(state.attack_sessions)) :
              LET s2 == execute_analysis_plan(state, now, replies) IN
              ToolBodyFails(replies) =>
                  /\ OneErrorAppended(state, s2)
                  /\ "error" \in DOMAIN s2.tool_results
                  /\ s2.enrichment_data = EmptyDict
                  /\ FieldsUnchangedBut(state, s2,
                         {"errors", "tool_results", "enrichment_data"}
                             \cup also)
                  /\ route_after_tool_coordination(s2) = "confidence_scorer"
    /\ node = "confidence_scorer" =>
          \A reply \in LlmScoreReplies :
              LET s2 == calculate_coordination_score(state, now, llm, reply,
                                                     TRUE) IN
                  /\ OneErrorAppended(state, s2)
                  /\ s2.coordination_confidence = Half
                  /\ s2.evidence_breakdown = EmptyDict
                  /\ FieldsUnchangedBut(state, s2,
                         {"errors", "coordination_confidence",
                          "evidence_breakdown"} \cup also)
                  /\ route_after_confidence_scoring(s2) \in StageNodes
    /\ node = "elasticsearch_enricher" =>
          LET s2 == enrich_attack_sessions(state, now, TRUE) IN
              /\ OneErrorAppended(state, s2)
              /\ FieldsUnchangedBut(state, s2, {"errors"} \cup also)

\* C24 as stated: a failed body of ToolCoordinator, ConfidenceScorer or
\* Enricher appends exactly one error, sets the stage's outputs to their
\* defaults, leaves every other state field unchanged, and the next stage
\* still runs.
C24_FailedBodyChangesOutputsOnly == FailedBodyKeeps({})

\* C24, amended: besides errors and the stage's outputs, a failed body
\* leaves every field unchanged but processing_steps (the stage's step is
\* appended before the body), final_assessment (ConfidenceScorer sets it
\* to an error entry) and workflow_end_time (the Enricher sets it after
\* the body).
C24_FailedBodyKeepsTheRest ==
    /\ FailedBodyKeeps({"processing_steps", "final_assessment",
                        "workflow_end_time"})
    /\ node = "tool_coordinator" =>
          \A replies \in ToolReplies(SourceIps(state.attack_sessions)) :
              LET s2 == execute_analysis_plan(state, now, replies) IN
              ToolBodyFails(replies) =>
                  /\ s2.final_assessment = state.final_assessment
                  /\ s2.workflow_end_time = state.workflow_end_time
    /\ node = "confidence_scorer" =>
          \A reply \in LlmScoreReplies :
              LET s2 == calculate_coordination_score(state, now, llm, reply,
                                                     TRUE) IN
                  /\ "error" \in DOMAIN s2.final_assessment
                  /\ s2.workflow_end_time = state.workflow_end_time
    /\ node = "elasticsearch_enricher" =>
          enrich_attack_sessions(state, now, TRUE).final_assessment
              = state.final_assessment

\* a run in which the tool coordinator's body failed and the scorer, the
\* next stage, has run after it
C24_Witness ==
    /\ "error" \in DOMAIN state.tool_results
    /\ state.enrichment_data = EmptyDict
    /\ \E i \in DOMAIN path : path[i] = "confidence_scorer"
    /\ Len(state.errors) >= 1

----------------------------------------------------------------------------
(* A run in which every stage failed.                                      *)

\* the error each stage records when its body fails
StageError ==
    [pattern_analyzer |-> "Pattern analysis failed",
     tool_coordinator |-> "Tool coordination failed",
     confidence_scorer |-> "Confidence scoring failed",
     elasticsearch_enricher |-> "Elasticsearch enrichment failed"]

\* the run returned, and every stage on its path that can record a
\* failure did
EveryStageFailed ==
    /\ outcome.status = "returned"
    /\ \A i \in DOMAIN path :
          path[i] \in DOMAIN StageError =>
              \E j \in DOMAIN state.errors :
                  state.errors[j].error = StageError[path[i]]

----------------------------------------------------------------------------
(* The evidence vector the ConfidenceScorer extracts.                      *)

\* the scorer has run on this state and its body did not fail
ScorerSucceeded ==
    /\ \E i \in DOMAIN path : path[i] = "confidence_scorer"
    /\ "confidence_score" \in DOMAIN state.final_assessment

\* the infrastructure sub-score of correlation_results, if there is one
InfrastructureSubScore(s) ==
    DictGet(DictGet(s.correlation_results, "infrastructure", EmptyDict),
            "clustering_score", Zero)

\* C26: the infrastructure_clustering entry of the evidence vector is
\* enrichment_data.infrastructure_clustering whenever that is present,
\* otherwise the infrastructure sub-score of correlation_results,
\* otherwise 0.0.
C26_InfrastructurePrefersEnrichment ==
    ScorerSucceeded =>
        DictGet(state.evidence_breakdown, "infrastructure_clustering", None)
            = IF "infrastructure_clustering" \in DOMAIN state.enrichment_data
              THEN state.enrichment_data.infrastructure_clustering
              ELSE InfrastructureSubScore(state)

CanonicalDimensions ==
    {"temporal_correlation", "behavioral_similarity",
     "infrastructure_clustering", "geographic_proximity",
     "payload_similarity"}

\* C27: after the ConfidenceScorer succeeds, the key set of
\* evidence_breakdown is exactly the five canonical dimensions, and
\* payload_similarity is 0.5.
C27_EvidenceKeysAreCanonical ==
    ScorerSucceeded =>
        /\ DOMAIN state.evidence_breakdown = CanonicalDimensions
        /\ state.evidence_breakdown.payload_similarity = Half

----------------------------------------------------------------------------
(* The cache layer: CacheManager (services/database/cache.py) and          *)
(* WorkflowStateManager (services/database/workflow_state.py) over Redis.  *)
(* A Python value is a record of its type and its content written out; a   *)
(* Redis string is the text itself.                                        *)

PyNone == [t |-> "NoneType", v |-> "None"]
PyBool(b) == [t |-> "bool", v |-> IF b THEN "True" ELSE "False"]
PyInt(digits) == [t |-> "int", v |-> digits]
PyStr(chars) == [t |-> "str", v |-> chars]
\* a dict or a list, its content given as its JSON text
PyDict(text) == [t |-> "dict", v |-> text]
PyList(text) == [t |-> "list", v |-> text]

\* dicts as the callers pass them
DictValues == {PyDict("{}"), PyDict("{\"a\": 1}")}

\* create_checkpoint's checkpoint_data["timestamp"] = ...
with_timestamp(d) ==
    IF d.v = "{}" THEN PyDict("{\"timestamp\": \"T\"}")
    ELSE PyDict("{\"a\": 1, \"timestamp\": \"T\"}")

\* the JSON-serializable values of the model
JsonValues ==
    {PyNone, PyBool(TRUE), PyInt("123"), PyStr("hello"), PyStr("123"),
     PyStr(""), PyList("[]"), PyList("[1, \"a\"]")}
        \cup DictValues \cup {with_timestamp(d) : d \in DictValues}

\* Python's truth value of a value
Truthy(x) ==
    x \notin {PyNone, PyBool(FALSE), PyInt("0"), PyStr(""), PyDict("{}"),
              PyList("[]")}

\* str(data)
py_str(x) == x.v

\* json.dumps(data, default=str)
json_dumps(x) ==
    CASE x.t = "NoneType" -> "null"
      [] x.t = "bool" -> IF x.v = "True" THEN "true" ELSE "false"
      [] x.t = "str" -> "\"" \o x.v \o "\""
      [] OTHER -> x.v

\* the texts json.loads accepts, each with the value it returns
JsonDocs ==
    [text \in {json_dumps(x) : x \in JsonValues} |->
        CHOOSE x \in JsonValues : json_dumps(x) = text]

\* json.loads raises JSONDecodeError on any other text
json_loads_raises(text) == text \notin DOMAIN JsonDocs

serialize_data(data) ==
    IF data.t \in {"dict", "list"} THEN json_dumps(data) ELSE py_str(data)

deserialize_data(data) ==
    IF json_loads_raises(data) THEN PyStr(data) ELSE JsonDocs[data]

serialize_state(st) == json_dumps(st)

deserialize_state(state_data) ==
    IF json_loads_raises(state_data) THEN PyDict("{}")
    ELSE JsonDocs[state_data]

CACHE_TTL ==
    [analysis_result |-> 86400, campaign_data |-> 21600,
     threat_intel |-> 3600, workflow_state |-> 3600,
     enrichment_data |-> 7200]

WORKFLOW_STATE_TTL == 3600

CACHE_PREFIXES ==
    [analysis |-> "analysis", campaign |-> "campaign",
     threat_intel |-> "threat", workflow |-> "workflow",
     enrichment |-> "enrichment"]

STATE_PREFIXES ==
    [workflow |-> "workflow:state", progress |-> "workflow:progress",
     checkpoint |-> "workflow:checkpoint", error |-> "workflow:error",
     metadata |-> "workflow:metadata"]

\* f"{prefix}:{identifier}", kept as the pair so that KEYS can match it
make_key(prefix, identifier) == <<prefix, identifier>>

(* Redis commands at server time t; an expired key is gone.                *)
redis_live(store, t) == {k \in DOMAIN store : t < store[k].expires}

redis_get(store, t, key) ==
    IF key \in redis_live(store, t) THEN Some(store[key].data) ELSE None

redis_setex(store, t, key, ttl, data) ==
    [k \in redis_live(store, t) \cup {key} |->
        IF k = key THEN [data |-> data, expires |-> t + ttl]
        ELSE store[k]]

redis_delete(store, t, keys) ==
    [k \in redis_live(store, t) \ keys |-> store[k]]

\* KEYS f"{prefix}:*": every state prefix itself starts with "workflow:"
redis_keys(store, t, prefix) ==
    {k \in redis_live(store, t) :
        \/ k[1] = prefix
        \/ /\ prefix = CACHE_PREFIXES.workflow
           /\ k[1] \in {STATE_PREFIXES[n] : n \in DOMAIN STATE_PREFIXES}}

\* small counts written out
Digits == <<"0", "1", "2", "3", "4", "5", "6", "7", "8", "9">>
IntText(n) == Digits[n + 1]

(* What a manager call gives back: the store after it, and the value       *)
(* returned or the fact that it raised.                                    *)
returns(store, value) == [store |-> store, raised |-> FALSE, value |-> value]

\* except RedisError as e: logger.error(...); return <value>
on_redis_error_reraise(store, value) ==
    [store |-> store, raised |-> TRUE, value |-> PyNone]

on_redis_error(store, value) == returns(store, value)

\* the error dict of the two statistics calls: {"error": str(e)}
ErrorDict == PyDict("{\"error\": \"E\"}")

(* CacheManager.  Every set_* and get_* has the same body but for the      *)
(* prefix and the TTL.                                                     *)
cache_set(store, t, redis_ok, prefix, ttl, identifier, data) ==
    IF ~redis_ok THEN on_redis_error(store, PyBool(FALSE))
    ELSE returns(redis_setex(store, t, make_key(prefix, identifier), ttl,
                             serialize_data(data)),
                 PyBool(TRUE))

cache_get(store, t, redis_ok, prefix, identifier) ==
    IF ~redis_ok THEN on_redis_error(store, PyNone)
    ELSE LET data == redis_get(store, t, make_key(prefix, identifier))
         IN  IF data # None /\ data[1] # ""
             THEN returns(store, deserialize_data(data[1]))
             ELSE returns(store, PyNone)

cache_invalidate(store, t, redis_ok, prefix, identifier) ==
    IF ~redis_ok THEN on_redis_error(store, PyBool(FALSE))
    ELSE returns(redis_delete(store, t, {make_key(prefix, identifier)}),
                 PyBool(TRUE))

set_analysis_result(store, t, redis_ok, session_id, result) ==
    cache_set(store, t, redis_ok, CACHE_PREFIXES.analysis,
              CACHE_TTL.analysis_result, session_id, result)

get_analysis_result(store, t, redis_ok, session_id) ==
    cache_get(store, t, redis_ok, CACHE_PREFIXES.analysis, session_id)

invalidate_analysis_result(store, t, redis_ok, session_id) ==
    cache_invalidate(store, t, redis_ok, CACHE_PREFIXES.analysis, session_id)

\* invalidate_pattern(f"{prefix}:*")
invalidate_pattern(store, t, redis_ok, prefix) ==
    IF ~redis_ok THEN on_redis_error(store, PyInt("0"))
    ELSE LET keys == redis_keys(store, t, prefix)
         IN  IF keys # {}
             THEN returns(redis_delete(store, t, keys),
                          PyInt(IntText(Cardinality(keys))))
             ELSE returns(store, PyInt("0"))

get_cache_stats(store, t, redis_ok) ==
    IF ~redis_ok THEN on_redis_error(store, ErrorDict)
    ELSE returns(store, PyDict("{\"analysis_keys\": "
             \o IntText(Cardinality(
                    redis_keys(store, t, CACHE_PREFIXES.analysis)))
             \o ", ...}"))

\* warm_cache({"analysis_results": {session_id: result}})
warm_cache(store, t, redis_ok, session_id, result) ==
    IF ~redis_ok THEN on_redis_error(store, PyBool(FALSE))
    ELSE returns(redis_setex(store, t,
                     make_key(CACHE_PREFIXES.analysis, session_id),
                     CACHE_TTL.analysis_result, serialize_data(result)),
                 PyBool(TRUE))

(* WorkflowStateManager.  Every save_* and get_* has the same body but for *)
(* the prefix and the TTL.                                                 *)
state_save(store, t, redis_ok, prefix, ttl, workflow_id, st) ==
    IF ~redis_ok THEN on_redis_error(store, PyBool(FALSE))
    ELSE returns(redis_setex(store, t, make_key(prefix, workflow_id), ttl,
                             serialize_state(st)),
                 PyBool(TRUE))

state_get(store, t, redis_ok, prefix, workflow_id) ==
    IF ~redis_ok THEN on_redis_error(store, PyNone)
    ELSE LET state_data == redis_get(store, t, make_key(prefix, workflow_id))
         IN  IF state_data # None /\ state_data[1] # ""
             THEN returns(store, deserialize_state(state_data[1]))
             ELSE returns(store, PyNone)

create_checkpoint(store, t, redis_ok, workflow_id, checkpoint_data) ==
    state_save(store, t, redis_ok, STATE_PREFIXES.checkpoint,
               WORKFLOW_STATE_TTL, workflow_id,
               with_timestamp(checkpoint_data))

cleanup_workflow_state(store, t, redis_ok, workflow_id) ==
    IF ~redis_ok THEN on_redis_error(store, PyBool(FALSE))
    ELSE returns(redis_delete(store, t,
                     {make_key(STATE_PREFIXES[n], workflow_id) :
                         n \in DOMAIN STATE_PREFIXES}),
                 PyBool(TRUE))

\* the ids are returned as a list; the model gives their number
get_active_workflows(store, t, redis_ok) ==
    IF ~redis_ok THEN on_redis_error(store, PyList("[]"))
    ELSE LET keys == {k \in redis_live(store, t) :
                         k[1] = STATE_PREFIXES.workflow}
         IN  IF keys = {} THEN returns(store, PyList("[]"))
             ELSE returns(store, PyList("[" \o IntText(Cardinality(keys))
                                            \o " ids]"))

get_workflow_stats(store, t, redis_ok) ==
    IF ~redis_ok THEN on_redis_error(store, ErrorDict)
    ELSE returns(store, PyDict("{\"workflow_count\": "
             \o IntText(Cardinality(
                    {k \in redis_live(store, t) :
                        k[1] = STATE_PREFIXES.workflow}))
             \o ", ...}"))

\* get_checkpoint, then get_workflow_state; each catches its own RedisError
recover_workflow_state(store, t, redis_ok, workflow_id) ==
    LET chk == state_get(store, t, redis_ok, STATE_PREFIXES.checkpoint,
                         workflow_id).value
        st == state_get(store, t, redis_ok, STATE_PREFIXES.workflow,
                        workflow_id).value
    IN  IF Truthy(chk) THEN returns(store, chk)
        ELSE IF Truthy(st) THEN returns(store, st)
        ELSE returns(store, PyNone)

\* the other CacheManager setters and getters: prefix and TTL of each
CacheSetOps ==
    [set_campaign_data |->
        [prefix |-> CACHE_PREFIXES.campaign, ttl |-> CACHE_TTL.campaign_data],
     set_threat_intel |->
        [prefix |-> CACHE_PREFIXES.threat_intel,
         ttl |-> CACHE_TTL.threat_intel],
     set_workflow_state |->
        [prefix |-> CACHE_PREFIXES.workflow,
         ttl |-> CACHE_TTL.workflow_state],
     set_enrichment_data |->
        [prefix |-> CACHE_PREFIXES.enrichment,
         ttl |-> CACHE_TTL.enrichment_data]]

CacheGetOps ==
    [get_campaign_data |-> CACHE_PREFIXES.campaign,
     get_threat_intel |-> CACHE_PREFIXES.threat_intel,
     get_workflow_state |-> CACHE_PREFIXES.workflow,
     get_enrichment_data |-> CACHE_PREFIXES.enrichment]

\* the WorkflowStateManager savers and getters ("wsm." tells its
\* get_workflow_state from the CacheManager's)
StateSaveOps ==
    [save_workflow_state |->
        [prefix |-> STATE_PREFIXES.workflow, ttl |-> WORKFLOW_STATE_TTL],
     update_workflow_progress |->
        [prefix |-> STATE_PREFIXES.progress, ttl |-> WORKFLOW_STATE_TTL],
     save_error_state |->
        [prefix |-> STATE_PREFIXES.error, ttl |-> WORKFLOW_STATE_TTL * 2],
     save_metadata |->
        [prefix |-> STATE_PREFIXES.metadata, ttl |-> WORKFLOW_STATE_TTL]]

StateGetOps ==
    [wsm_get_workflow_state |-> STATE_PREFIXES.workflow,
     get_workflow_progress |-> STATE_PREFIXES.progress,
     get_checkpoint |-> STATE_PREFIXES.checkpoint,
     get_error_state |-> STATE_PREFIXES.error,
     get_metadata |-> STATE_PREFIXES.metadata]

CacheManagerOps ==
    {"set_analysis_result", "get_analysis_result",
     "invalidate_analysis_result", "invalidate_campaign_data",
     "invalidate_pattern", "get_cache_stats", "warm_cache"}
        \cup DOMAIN CacheSetOps \cup DOMAIN CacheGetOps

WorkflowStateOps ==
    {"create_checkpoint", "cleanup_workflow_state", "get_active_workflows",
     "get_workflow_stats", "recover_workflow_state"}
        \cup DOMAIN StateSaveOps \cup DOMAIN StateGetOps

ManagerOps == CacheManagerOps \cup WorkflowStateOps

\* one call of a manager operation
manager_call(op, store, t, redis_ok, id, data) ==
    CASE op = "set_analysis_result" ->
            set_analysis_result(store, t, redis_ok, id, data)
      [] op = "get_analysis_result" ->
            get_analysis_result(store, t, redis_ok, id)
      [] op = "invalidate_analysis_result" ->
            invalidate_analysis_result(store, t, redis_ok, id)
      [] op = "invalidate_campaign_data" ->
            cache_invalidate(store, t, redis_ok, CACHE_PREFIXES.campaign, id)
      [] op = "invalidate_pattern" ->
            invalidate_pattern(store, t, redis_ok, CACHE_PREFIXES.analysis)
      [] op = "get_cache_stats" -> get_cache_stats(store, t, redis_ok)
      [] op = "warm_cache" -> warm_cache(store, t, redis_ok, id, data)
      [] op \in DOMAIN CacheSetOps ->
            cache_set(store, t, redis_ok, CacheSetOps[op].prefix,
                      CacheSetOps[op].ttl, id, data)
      [] op \in DOMAIN CacheGetOps ->
            cache_get(store, t, redis_ok, CacheGetOps[op], id)
      [] op = "create_checkpoint" ->
            create_checkpoint(store, t, redis_ok, id, data)
      [] op = "cleanup_workflow_state" ->
            cleanup_workflow_state(store, t, redis_ok, id)
      [] op = "get_active_workflows" ->
            get_active_workflows(store, t, redis_ok)
      [] op = "get_workflow_stats" -> get_workflow_stats(store, t, redis_ok)
      [] op = "recover_workflow_state" ->
            recover_workflow_state(store, t, redis_ok, id)
      [] op \in DOMAIN StateSaveOps ->
            state_save(store, t, redis_ok, StateSaveOps[op].prefix,
                       StateSaveOps[op].ttl, id, data)
      [] op \in DOMAIN StateGetOps ->
            state_get(store, t, redis_ok, StateGetOps[op], id)

\* bound of the model: manager calls per behaviour
MaxCacheCalls == 2

CacheIds == {"s1"}

\* the instants at which calls are made
CacheInstants == {0, WORKFLOW_STATE_TTL, CACHE_TTL.analysis_result}

\* the values a call may be given: any JSON-serializable value to
\* set_analysis_result, a dict to the others that take one
ArgsOf(op) ==
    IF op = "set_analysis_result"
    THEN JsonValues \ {with_timestamp(d) : d \in DictValues}
    ELSE IF op \in {"save_workflow_state", "create_checkpoint"}
    THEN DictValues
    ELSE IF op \in {"warm_cache"}
                   \cup DOMAIN CacheSetOps \cup DOMAIN StateSaveOps
    THEN {PyDict("{\"a\": 1}")}
    ELSE {PyNone}

NoCall ==
    [op |-> "none", id |-> "", data |-> PyNone, redis_ok |-> TRUE,
     raised |-> FALSE, value |-> PyNone, fresh |-> None,
     recoverable |-> None]

CacheIdle ==
    /\ cache_store = EmptyDict
    /\ cache_time = 0
    /\ cache_written = EmptyDict
    /\ state_written = EmptyDict
    /\ cache_last = NoCall
    /\ cache_count = 0

InitCache == CacheIdle

\* the value a get of id must give back at time t: that of the latest
\* successful set_analysis_result, while its TTL runs
Fresh(written, t, id) ==
    IF id \in DOMAIN written /\ t < written[id].at + CACHE_TTL.analysis_result
    THEN Some(written[id].value)
    ELSE None

\* a call that sets or invalidates the analysis result of id
TouchesAnalysis(op) ==
    op \in {"set_analysis_result", "warm_cache",
            "invalidate_analysis_result", "invalidate_pattern"}

\* the dicts the callers wrote under the state and checkpoint keys: a
\* write that reached Redis replaces the key's dict, cleanup drops both
StateWritten(written, t, op, redis_ok, id, data) ==
    IF ~redis_ok THEN written
    ELSE IF op = "save_workflow_state"
    THEN DictSet(written, <<"workflow", id>>,
                 [value |-> data, expires |-> t + WORKFLOW_STATE_TTL])
    ELSE IF op = "create_checkpoint"
    THEN DictSet(written, <<"checkpoint", id>>,
                 [value |-> with_timestamp(data),
                  expires |-> t + WORKFLOW_STATE_TTL])
    ELSE IF op = "cleanup_workflow_state"
    THEN [k \in DOMAIN written \ {<<"workflow", id>>, <<"checkpoint", id>>}
            |-> written[k]]
    ELSE written

\* what is there to recover for id at time t: the latest checkpoint while
\* it lasts, otherwise the latest saved state while it lasts
Recoverable(written, t, id) ==
    LET lasts(k) == k \in DOMAIN written /\ t < written[k].expires
    IN  IF lasts(<<"checkpoint", id>>)
        THEN Some(written[<<"checkpoint", id>>].value)
        ELSE IF lasts(<<"workflow", id>>)
        THEN Some(written[<<"workflow", id>>].value)
        ELSE None

CacheCall ==
    \E op \in ManagerOps, id \in CacheIds, redis_ok \in BOOLEAN :
      \E data \in ArgsOf(op) :
        LET r == manager_call(op, cache_store, cache_time, redis_ok, id, data)
        IN  /\ cache_count < MaxCacheCalls
            /\ cache_count' = cache_count + 1
            /\ cache_store' = r.store
            /\ cache_last' =
                 [op |-> op, id |-> id, data |-> data, redis_ok |-> redis_ok,
                  raised |-> r.raised, value |-> r.value,
                  fresh |-> Fresh(cache_written, cache_time, id),
                  recoverable |-> Recoverable(state_written, cache_time, id)]
            /\ state_written' =
                 StateWritten(state_written, cache_time, op, redis_ok, id, data)
            /\ cache_written' =
                 IF op = "set_analysis_result" /\ redis_ok /\ ~r.raised
                 THEN DictSet(cache_written, id,
                              [value |-> data, at |-> cache_time])
                 ELSE IF TouchesAnalysis(op)
                 THEN [k \in DOMAIN cache_written \ {id} |-> cache_written[k]]
                 ELSE cache_written
            /\ UNCHANGED cache_time
            /\ UNCHANGED <<wfVars, rlVars, taskVars, apiVars, scoreVars,
                           pairVars, calcVars>>

\* time passes; Redis drops the keys that expired
CacheTick ==
    \E t \in CacheInstants :
        /\ t > cache_time
        /\ cache_time' = t
        /\ cache_store' = [k \in redis_live(cache_store, t) |-> cache_store[k]]
        /\ UNCHANGED <<cache_written, state_written, cache_last, cache_count>>
        /\ UNCHANGED <<wfVars, rlVars, taskVars, apiVars, scoreVars,
                       pairVars, calcVars>>

\* C21: a get_analysis_result that reaches Redis within the TTL of the
\* latest successful set_analysis_result of the same id, with no set or
\* invalidation of the id in between, returns the value that was set.
C21_RoundTripIsIdentity ==
    (/\ cache_last.op = "get_analysis_result"
     /\ cache_last.redis_ok
     /\ cache_last.fresh # None)
        => /\ ~cache_last.raised
           /\ cache_last.value = cache_last.fresh[1]

\* the calls made while Redis fails
FailedCall == cache_last.op # "none" /\ ~cache_last.redis_ok

\* the failure values the claim lists: false, none, 0 or empty
ListedFailureValues ==
    {PyBool(FALSE), PyNone, PyInt("0"), PyList("[]"), PyDict("{}"),
     PyStr("")}

\* C22 as stated: when Redis fails, every CacheManager and
\* WorkflowStateManager operation returns false, none, 0 or an empty
\* value instead of raising.
C22_FailureValueIsListed ==
    FailedCall =>
        /\ ~cache_last.raised
        /\ cache_last.value \in ListedFailureValues

StatsOps == {"get_cache_stats", "get_workflow_stats"}

\* the value each operation gives when Redis fails
FailureValueOf(op) ==
    IF op \in StatsOps THEN ErrorDict
    ELSE IF op = "invalidate_pattern" THEN PyInt("0")
    ELSE IF op = "get_active_workflows" THEN PyList("[]")
    ELSE IF op \in {"get_analysis_result", "recover_workflow_state"}
                   \cup DOMAIN CacheGetOps \cup DOMAIN StateGetOps
    THEN PyNone
    ELSE PyBool(FALSE)

\* C22, amended: when Redis fails no operation raises; the two statistics
\* operations return a dict holding an "error" entry and every other
\* operation returns false, none, 0 or an empty list, each its own.
C22_FailureValueOrErrorDict ==
    FailedCall =>
        /\ ~cache_last.raised
        /\ cache_last.value = FailureValueOf(cache_last.op)
        /\ cache_last.op \notin StatsOps
              => cache_last.value \in ListedFailureValues

C22_Witness ==
    /\ FailedCall
    /\ cache_last.op = "get_workflow_stats"
    /\ ~cache_last.raised
    /\ cache_last.value = ErrorDict
    /\ cache_count = MaxCacheCalls

----------------------------------------------------------------------------
(* Two ToolCoordinator runs on one batch, side by side.  Here the floating *)
(* point of sum(threat_scores) / len(threat_scores) is modelled: a float   *)
(* keeps FloatMantissaBits significant bits and every operation rounds to  *)
(* the nearest float, ties to even.                                        *)

\* bound of the model (a double keeps 53)
FloatMantissaBits == 3

RECURSIVE Pow2(_)
Pow2(k) == IF k = 0 THEN 1 ELSE 2 * Pow2(k - 1)

\* round a non-negative rational to the nearest integer, ties to even
RoundHalfEven(q) ==
    LET f == q.n \div q.d
        twice == 2 * (q.n - f * q.d)
    IN  IF twice < q.d THEN f
        ELSE IF twice > q.d THEN f + 1
        ELSE IF f % 2 = 0 THEN f ELSE f + 1

\* the nearest float to a non-negative rational
RECURSIVE FRoundScaled(_, _)
FRoundScaled(r, scale) ==
    IF RLt(r, Rat(Pow2(FloatMantissaBits - 1), 1))
    THEN FRoundScaled(RMul(r, Rat(2, 1)), RMul(scale, Rat(1, 2)))
    ELSE IF RGeq(r, Rat(Pow2(FloatMantissaBits), 1))
    THEN FRoundScaled(RMul(r, Rat(1, 2)), RMul(scale, Rat(2, 1)))
    ELSE RMul(Rat(RoundHalfEven(r), 1), scale)

FRound(r) == IF r.n = 0 THEN Zero ELSE FRoundScaled(r, One)

float_add(a, b) == FRound(RAdd(a, b))
float_div(a, b) == FRound(RDiv(a, b))

\* sum(values): 0 + values[0] + values[1] + ..., left to right
RECURSIVE float_sum_from(_, _)
float_sum_from(acc, values) ==
    IF values = <<>> THEN acc
    ELSE float_sum_from(float_add(acc, Head(values)), Tail(values))

float_sum(values) == float_sum_from(Zero, values)

\* the addresses of the batch, and the threat scores a deterministic
\* threat_intel tool gives them (floats, in eighths)
PairIps == {1, 2, 3}
PairScoreEighths == {1, 3, 5, 6, 7}
PairThreatReplies == [PairIps -> {Rat(k, 8) : k \in PairScoreEighths}]

\* list({session.get("source_ip") for session in sessions ...}): the
\* addresses in the set's iteration order, which for str elements
\* follows the process's hash seed
source_ips_lists(ips) ==
    {order \in [1..Cardinality(ips) -> ips] :
        \A i, j \in DOMAIN order : i # j => order[i] # order[j]}

\* _threat_intel_lookup fills results in the order of ips, and
\* threat_results.values() lists them in that order
threat_scores_listed(source_ips, reply) ==
    [i \in DOMAIN source_ips |-> reply[source_ips[i]]]

\* avg_threat_score = sum(threat_scores) / len(threat_scores)
avg_threat_score(scores) ==
    float_div(float_sum(scores), Rat(Len(scores), 1))

NotRun == [done |-> FALSE, source_ips |-> <<>>, threat_correlation |-> Zero]

InitPair ==
    \E reply \in PairThreatReplies :
        pair = [reply |-> reply, runs |-> <<NotRun, NotRun>>]

\* one run of _execute_tools and _synthesize_results on the batch
PairRun ==
    \E i \in {1, 2}, source_ips \in source_ips_lists(PairIps) :
        /\ pair # <<>>
        /\ ~pair.runs[i].done
        /\ pair' = [pair EXCEPT !.runs[i] =
              [done |-> TRUE,
               source_ips |-> source_ips,
               threat_correlation |->
                   avg_threat_score(
                       threat_scores_listed(source_ips, pair.reply))]]
        /\ UNCHANGED <<wfVars, rlVars, taskVars, apiVars, scoreVars,
                       cacheVars, calcVars>>

BothRan == pair # <<>> /\ pair.runs[1].done /\ pair.runs[2].done

PairIdle == pair = <<>>

----------------------------------------------------------------------------
(* _synthesize_results and _statistical_confidence_scoring as functions of *)
(* their argument: the argument is drawn at the start, and each call       *)
(* records what it returned.                                               *)

\* bounds of the model: addresses in a batch, calls per argument
MaxSynthIps == 3
MaxCalcCalls == 2

SynthIpSets == {1..n : n \in 0..MaxSynthIps}

\* a tool's entry in tool_results: absent, an error entry, or results
Absent == [kind |-> "absent"]
ErrorEntry == [kind |-> "error"]
Results(r) == [kind |-> "results", results |-> r]

\* the entry of a tool as its stub fills it
StubEntries(ips) ==
    [bgp_lookup |->
        Results([ip \in ips |-> [asn |-> <<"AS", 12345>>, prefix |-> "p"]]),
     geolocation |->
        Results([ip \in ips |-> [country |-> <<"US">>, city |-> "Unknown"]]),
     threat_intel |->
        Results([ip \in ips |->
                   [threat_score |-> Tenths(MockThreatTenths),
                    reputation |-> "unknown"]])]

\* every way a tool can answer for the addresses: each address gets one
\* of as many ASNs (countries) as there are addresses, or a threat score
\* or none
AllEntries(tool, ips) ==
    {Absent, ErrorEntry} \cup
    CASE tool = "bgp_lookup" ->
            {Results([ip \in ips |-> [asn |-> <<"AS", a[ip]>>, prefix |-> "p"]]) :
                a \in [ips -> 1..MaxSynthIps]}
      [] tool = "geolocation" ->
            {Results([ip \in ips |->
                        [country |-> <<"C", c[ip]>>, city |-> "Unknown"]]) :
                c \in [ips -> 1..MaxSynthIps]}
      [] tool = "threat_intel" ->
            {Results([ip \in ips |->
                        IF t[ip] = None THEN [reputation |-> "unknown"]
                        ELSE [threat_score |-> t[ip][1],
                              reputation |-> "unknown"]]) :
                t \in [ips -> {None, Some(Tenths(MockThreatTenths)),
                               Some(Tenths(8))}]}

SynthTools == {"bgp_lookup", "geolocation", "threat_intel"}

\* tool_results built from the entries: an absent tool has no key
ToolResultsOf(entries) ==
    [tool \in {x \in SynthTools : entries[x].kind # "absent"} |->
        IF entries[tool].kind = "error" THEN [error |-> "tool failed"]
        ELSE [method |-> "mock", results |-> entries[tool].results]]

\* the arguments of _synthesize_results: one tool answers in every
\* way while the others are absent, failed or as their stubs answer
SynthArgs ==
    UNION {
        {ToolResultsOf([x \in SynthTools |->
                           IF x = tool THEN e ELSE others[x]]) :
            e \in AllEntries(tool, ips),
            others \in [SynthTools ->
                           {Absent, ErrorEntry}] \cup {StubEntries(ips)}} :
        tool \in SynthTools, ips \in SynthIpSets}

\* the arguments of _statistical_confidence_scoring: evidence maps over
\* the five weighted dimensions and one that has no weight of its own
EvidenceKeys ==
    {"temporal_correlation", "behavioral_similarity",
     "infrastructure_clustering", "geographic_proximity",
     "payload_similarity", "threat_correlation"}

EvidenceScores == {Zero, Tenths(3), One, Rat(3, 2)}

EvidenceArgs ==
    UNION {[keys -> EvidenceScores] : keys \in SUBSET EvidenceKeys}

(* LLMClient.analyze_coordination after generate has returned.  The       *)
(* response text is modelled by what the parser reads in it: whether a     *)
(* "{" ... "}" span exists and is valid JSON, the fields of the object,    *)
(* and the phrases and bullet lines the fallback parser looks for.         *)

MaxBullets == 6

\* the value of a JSON field: absent, a number, or of a type the result
\* model refuses (NotANumber stands for it)
JsonConfidences == {None, Some(Tenths(9)), Some(Rat(3, 2)), Some(NotANumber)}

JsonEvidence ==
    {None, Some([temporal_correlation |-> Tenths(8)]),
     Some([temporal_correlation |-> Rat(3, 2)]),
     Some([temporal_correlation |-> NotANumber])}

\* key_factors: absent, a list of so many strings, or not a list (-1)
JsonKeyFactors == {None, Some(2), Some(MaxBullets), Some(-1)}

Phrases == {"none", "high confidence", "no coordination"}

ResponseTexts ==
    [braces : {FALSE}, parses : {FALSE},
     coordination_confidence : {None}, evidence_breakdown : {None},
     key_factors : {None}, phrase : Phrases, bullets : {0, MaxBullets}]
    \cup
    [braces : {TRUE}, parses : {FALSE},
     coordination_confidence : {None}, evidence_breakdown : {None},
     key_factors : {None}, phrase : Phrases, bullets : {0}]
    \cup
    [braces : {TRUE}, parses : {TRUE},
     coordination_confidence : JsonConfidences,
     evidence_breakdown : JsonEvidence,
     key_factors : JsonKeyFactors, phrase : {"none"}, bullets : {0}]

\* the confidence _parse_unstructured_response reads from the phrases
phrase_confidence(phrase) ==
    CASE phrase = "high confidence" -> Tenths(8)
      [] phrase = "no coordination" -> Tenths(1)
      [] OTHER -> Half

parse_unstructured_response(text) ==
    LET confidence == phrase_confidence(text.phrase) IN
    [coordination_confidence |-> confidence,
     evidence_breakdown |->
        [temporal_correlation |-> RMul(confidence, Tenths(8)),
         behavioral_similarity |-> RMul(confidence, Tenths(7)),
         infrastructure_clustering |-> RMul(confidence, Tenths(6)),
         geographic_proximity |-> RMul(confidence, Tenths(5)),
         payload_similarity |-> RMul(confidence, Tenths(9))],
     key_factors |-> IF text.bullets > 5 THEN 5 ELSE text.bullets,
     parsed_by |-> "fallback"]

\* CoordinationAnalysisResult(...) raises ValidationError: the confidence
\* is not a float in [0,1], evidence_breakdown is not a dict of floats, or
\* key_factors is not a list of strings
result_validation_fails(confidence, evidence, key_factors) ==
    \/ ~IsNumber(confidence)
    \/ ~InUnit(confidence)
    \/ \E k \in DOMAIN evidence : ~IsNumber(evidence[k])
    \/ key_factors < 0

llm_analyze_coordination(text) ==
    IF text.braces /\ text.parses
    THEN LET confidence ==
                 IF text.coordination_confidence = None THEN Zero
                 ELSE text.coordination_confidence[1]
             evidence ==
                 IF text.evidence_breakdown = None THEN EmptyDict
                 ELSE text.evidence_breakdown[1]
             key_factors ==
                 IF text.key_factors = None THEN 0 ELSE text.key_factors[1]
         IN  IF result_validation_fails(confidence, evidence, key_factors)
             THEN parse_unstructured_response(text)
             ELSE [coordination_confidence |-> confidence,
                   evidence_breakdown |-> evidence,
                   key_factors |-> key_factors,
                   parsed_by |-> "json"]
    ELSE parse_unstructured_response(text)

(* ToolCoordinatorAgent.execute_analysis_plan on the state the             *)
(* PatternAnalyzer leaves for a batch that needs deep analysis.            *)

\* three sessions from two addresses, a second less than the window apart
DeepBatch == Batch(3, 2, DeepWindowSeconds - 1, "aware")

StateBeforeTools(depth) ==
    analyze_patterns(
        analyze_initial_data(CoordinationAnalysisState(DeepBatch, depth), 0),
        1, FALSE,
        [temporal |-> [ok |-> FALSE, coordination_confidence |-> Zero],
         behavioral |-> [ok |-> FALSE, coordination_confidence |-> Zero],
         infrastructure |-> [ok |-> FALSE, coordination_confidence |-> Zero]],
        FALSE)

ToolRunArgs ==
    {[state |-> StateBeforeTools(depth), replies |-> replies] :
        depth \in Depths, replies \in ToolReplies(SourceIps(DeepBatch))}

NoCalc == [fn |-> "none", arg |-> EmptyDict, out |-> <<>>]

CalcIdle == calc = NoCalc

InitCalc ==
    \/ \E tool_results \in SynthArgs :
          calc = [fn |-> "synthesize_results", arg |-> tool_results,
                  out |-> <<>>]
    \/ \E evidence_scores \in EvidenceArgs :
          calc = [fn |-> "statistical_confidence_scoring",
                  arg |-> evidence_scores, out |-> <<>>]
    \/ \E evidence_scores \in EvidenceArgs :
          calc = [fn |-> "estimate_confidence",
                  arg |-> evidence_scores, out |-> <<>>]
    \/ \E text \in ResponseTexts :
          calc = [fn |-> "analyze_coordination", arg |-> text, out |-> <<>>]
    \/ \E run \in ToolRunArgs :
          calc = [fn |-> "execute_analysis_plan", arg |-> run, out |-> <<>>]

SynthesizeCall ==
    /\ calc.fn = "synthesize_results"
    /\ Len(calc.out) < MaxCalcCalls
    /\ calc' = [calc EXCEPT !.out = Append(@, synthesize_results(calc.arg))]
    /\ UNCHANGED <<wfVars, rlVars, taskVars, apiVars, scoreVars, cacheVars,
                   pairVars>>

StatisticalScoreCall ==
    /\ calc.fn = "statistical_confidence_scoring"
    /\ Len(calc.out) < MaxCalcCalls
    /\ calc' = [calc EXCEPT
                  !.out = Append(@, statistical_confidence_scoring(calc.arg))]
    /\ UNCHANGED <<wfVars, rlVars, taskVars, apiVars, scoreVars, cacheVars,
                   pairVars>>

\* the calls of _synthesize_results made so far
Synthesized(i) == calc.fn = "synthesize_results" /\ i \in DOMAIN calc.out

\* the results a tool gave for the addresses: none when the tool is
\* missing from tool_results or its entry is an error entry
ResultsIn(tool_results, tool) ==
    IF tool \in DOMAIN tool_results
       /\ "results" \in DOMAIN tool_results[tool]
    THEN tool_results[tool].results
    ELSE EmptyDict

\* the threat scores actually present in the threat_intel output
PresentThreatScores(tool_results) ==
    LET r == ResultsIn(tool_results, "threat_intel")
        ips == SetToSeq({ip \in DOMAIN r : "threat_score" \in DOMAIN r[ip]})
    IN  [i \in DOMAIN ips |-> r[ips[i]].threat_score]

\* C28: threat_correlation is the arithmetic mean of the threat_score
\* values present in the threat_intel output, addresses without a score
\* left out, and 0.0 when no score is available or the tool failed.
C28_ThreatMeanOverPresentScores ==
    \A i \in DOMAIN calc.out :
        Synthesized(i) =>
            calc.out[i].threat_correlation =
                IF PresentThreatScores(calc.arg) = <<>> THEN Zero
                ELSE RDiv(RSumSeq(PresentThreatScores(calc.arg)),
                          Rat(Len(PresentThreatScores(calc.arg)), 1))

\* the claim's rule for a slot: 0.8 when all addresses share one value,
\* 0.5 when there are fewer distinct values than addresses, else 0.0;
\* no address at all shares nothing
ClusteringRule(tool_results, tool, field) ==
    LET r == ResultsIn(tool_results, tool)
        addresses == DOMAIN r
        distinct == {r[ip][field] : ip \in addresses}
    IN  IF addresses = {} THEN Zero
        ELSE IF \A a, b \in addresses : r[a][field] = r[b][field]
        THEN Tenths(8)
        ELSE IF Cardinality(distinct) < Cardinality(addresses) THEN Tenths(5)
        ELSE Zero

\* C29: infrastructure_clustering follows the rule on the ASNs of the
\* bgp_lookup output and geographic_proximity follows it on the countries
\* of the geolocation output; a tool whose output is missing or is an
\* error entry contributes 0.0.
C29_ClusteringFollowsRule ==
    \A i \in DOMAIN calc.out :
        Synthesized(i) =>
            /\ calc.out[i].infrastructure_clustering
                  = ClusteringRule(calc.arg, "bgp_lookup", "asn")
            /\ calc.out[i].geographic_proximity
                  = ClusteringRule(calc.arg, "geolocation", "country")

\* three addresses on two ASNs score 0.5, and a failed geolocation 0.0
C29_Witness ==
    /\ Synthesized(1)
    /\ Cardinality(DOMAIN ResultsIn(calc.arg, "bgp_lookup")) = 3
    /\ calc.out[1].infrastructure_clustering = Tenths(5)
    /\ "geolocation" \in DOMAIN calc.arg
    /\ "error" \in DOMAIN calc.arg["geolocation"]
    /\ calc.out[1].geographic_proximity = Zero

EstimateConfidenceCall ==
    /\ calc.fn = "estimate_confidence"
    /\ Len(calc.out) < MaxCalcCalls
    /\ calc' = [calc EXCEPT
                  !.out = Append(@, estimate_confidence(calc.arg))]
    /\ UNCHANGED <<wfVars, rlVars, taskVars, apiVars, scoreVars, cacheVars,
                   pairVars>>

AnalyzeCoordinationCall ==
    /\ calc.fn = "analyze_coordination"
    /\ Len(calc.out) < MaxCalcCalls
    /\ calc' = [calc EXCEPT
                  !.out = Append(@, llm_analyze_coordination(calc.arg))]
    /\ UNCHANGED <<wfVars, rlVars, taskVars, apiVars, scoreVars, cacheVars,
                   pairVars>>

ExecuteAnalysisPlanCall ==
    /\ calc.fn = "execute_analysis_plan"
    /\ Len(calc.out) < MaxCalcCalls
    /\ calc' = [calc EXCEPT
                  !.out = Append(@, execute_analysis_plan(
                                        calc.arg.state, 2, calc.arg.replies))]
    /\ UNCHANGED <<wfVars, rlVars, taskVars, apiVars, scoreVars, cacheVars,
                   pairVars>>

\* the calls of _statistical_confidence_scoring made so far
MeanScored(i) ==
    calc.fn = "statistical_confidence_scoring" /\ i \in DOMAIN calc.out

\* the weights as the claim gives them, in hundredths
ClaimedWeight(dimension) ==
    CASE dimension = "temporal_correlation" -> Hundredths(25)
      [] dimension = "behavioral_similarity" -> Hundredths(25)
      [] dimension = "infrastructure_clustering" -> Hundredths(20)
      [] dimension = "geographic_proximity" -> Hundredths(15)
      [] dimension = "payload_similarity" -> Hundredths(15)
      [] OTHER -> Hundredths(10)

RECURSIVE SumOver(_, _, _)
SumOver(dimensions, evidence, weighted) ==
    IF dimensions = {} THEN Zero
    ELSE LET x == CHOOSE y \in dimensions : TRUE
             term == IF weighted
                     THEN RMul(ClaimedWeight(x), evidence[x])
                     ELSE ClaimedWeight(x)
         IN  RAdd(term, SumOver(dimensions \ {x}, evidence, weighted))

\* C30: the weighted-mean score of an evidence map is
\* sum(weight x score) / sum(weight) over the dimensions present, 0.5 for
\* an empty map, the same on every call, and within [0,1] whenever all
\* the scores are.
C30_WeightedMeanFormula ==
    \A i \in DOMAIN calc.out :
        MeanScored(i) =>
            /\ calc.out[i] =
                  IF DOMAIN calc.arg = {} THEN Half
                  ELSE RDiv(SumOver(DOMAIN calc.arg, calc.arg, TRUE),
                            SumOver(DOMAIN calc.arg, calc.arg, FALSE))
            /\ calc.out[i] = calc.out[1]
            /\ (\A k \in DOMAIN calc.arg : InUnit(calc.arg[k]))
                  => InUnit(calc.out[i])

\* the same map scored twice: two weighted dimensions and one without a
\* weight of its own, all within [0,1]
C30_Witness ==
    /\ MeanScored(MaxCalcCalls)
    /\ DOMAIN calc.arg =
          {"temporal_correlation", "payload_similarity", "threat_correlation"}
    /\ calc.arg["temporal_correlation"] = One
    /\ calc.arg["payload_similarity"] = Zero
    /\ calc.arg["threat_correlation"] = Tenths(3)
    /\ calc.out[1] = Rat(28, 50)

----------------------------------------------------------------------------
(* The scorer with an LLM configured.                                      *)

\* the weighted mean of an evidence map, as the claims give it
WeightedMean(evidence) ==
    IF DOMAIN evidence = {} THEN Half
    ELSE RDiv(SumOver(DOMAIN evidence, evidence, TRUE),
              SumOver(DOMAIN evidence, evidence, FALSE))

\* C31: with an LLM scorer configured, the final confidence is the LLM's
\* parsed score clamped to [0,1]; when the LLM call fails or no score can
\* be parsed, it is exactly the weighted mean of the evidence vector; the
\* scoring stage never fails because of the LLM.
C31_LlmScoreClampedOrWeightedMean ==
    \A i \in DOMAIN runs :
        (runs[i].scored /\ runs[i].has_llm) =>
            LET s == runs[i].state
                reply == runs[i].reply
            IN  /\ reply.kind = "score" =>
                      /\ InUnit(s.coordination_confidence)
                      /\ InUnit(reply.score)
                            => s.coordination_confidence = reply.score
                      /\ RLt(reply.score, Zero)
                            => s.coordination_confidence = Zero
                      /\ RGt(reply.score, One)
                            => s.coordination_confidence = One
                /\ reply.kind # "score" =>
                      s.coordination_confidence
                          = WeightedMean(s.evidence_breakdown)
                /\ s.errors = <<>>
                /\ "confidence_score" \in DOMAIN s.final_assessment

\* one run where the LLM's score 1.5 was clamped to 1, next to one where
\* the LLM call failed and the weighted mean was taken
C31_Witness ==
    /\ Scored(1) /\ Scored(2)
    /\ runs[1].has_llm /\ runs[2].has_llm
    /\ runs[1].reply.kind = "score"
    /\ RGt(runs[1].reply.score, One)
    /\ runs[1].state.coordination_confidence = One
    /\ runs[2].reply.kind = "error"
    /\ runs[2].state.coordination_confidence
          = WeightedMean(runs[2].state.evidence_breakdown)
    /\ runs[2].state.coordination_confidence # Half

----------------------------------------------------------------------------
(* The LLM client's own estimate against the scorer's weighted mean.       *)

\* the calls of LLMClient._estimate_confidence made so far
Estimated(i) ==
    calc.fn = "estimate_confidence" /\ i \in DOMAIN calc.out

\* C32: LLMClient._estimate_confidence returns, for every evidence map,
\* the value ConfidenceScorerAgent._statistical_confidence_scoring returns
\* for it: same weights, same default weight for unknown dimensions, same
\* result for the empty map.
C32_EstimateEqualsStatistical ==
    \A i \in DOMAIN calc.out :
        Estimated(i) =>
            /\ calc.out[i] = statistical_confidence_scoring(calc.arg)
            /\ DOMAIN calc.arg = {} => calc.out[i] = Half

\* the estimate of a map with a weighted dimension and one that takes the
\* default weight, and the estimate of the empty map
C32_Witness ==
    /\ Estimated(1)
    /\ DOMAIN calc.arg = {"temporal_correlation", "threat_correlation"}
    /\ calc.arg["temporal_correlation"] = One
    /\ calc.arg["threat_correlation"] = Zero
    /\ calc.out[1] = Rat(5, 7)

----------------------------------------------------------------------------
(* Recovery of a workflow's state.                                         *)

\* C35: after any sequence of state saves, checkpoint writes, expiries and
\* cleanups for a workflow id, recover_workflow_state returns the most
\* recently written checkpoint if one exists, otherwise the most recently
\* saved state, otherwise nothing.
C35_RecoverReturnsLatestRecord ==
    (cache_last.op = "recover_workflow_state" /\ cache_last.redis_ok)
        => /\ ~cache_last.raised
           /\ cache_last.value =
                 IF cache_last.recoverable = None THEN PyNone
                 ELSE cache_last.recoverable[1]

----------------------------------------------------------------------------
(* A failing tool inside the ToolCoordinator.                              *)

\* the tool set as the claim gives it
ClaimedToolSet(s) ==
    {"bgp_lookup", "threat_intel", "geolocation"}
        \cup (IF s.analysis_depth = "deep" THEN {"asn_analysis"} ELSE {})

\* the tools that returned gave the synthesis what it can take: every
\* threat_score is a number
OutputsWellFormed(replies) ==
    replies.threat_intel.ok =>
        \A ip \in DOMAIN replies.threat_intel.results :
            IsNumber(DictGet(replies.threat_intel.results[ip],
                             "threat_score", Zero))

\* the runs of the ToolCoordinator made so far
ToolsRan(i) ==
    calc.fn = "execute_analysis_plan" /\ i \in DOMAIN calc.out

\* C36: when an enrichment tool fails during ToolCoordinator, tool_results
\* holds an error entry for that tool only, every other tool of the tool
\* set is still executed and its output stored, and the stage itself does
\* not fail.
C36_ToolFailureIsIsolated ==
    \A i \in DOMAIN calc.out :
        (ToolsRan(i) /\ OutputsWellFormed(calc.arg.replies)) =>
            LET before == calc.arg.state
                replies == calc.arg.replies
                after == calc.out[i]
            IN  /\ DOMAIN after.tool_results = ClaimedToolSet(before)
                /\ \A tool \in ClaimedToolSet(before) :
                      IF replies[tool].ok
                      THEN /\ "error" \notin DOMAIN after.tool_results[tool]
                           /\ after.tool_results[tool].results
                                 = replies[tool].results
                      ELSE DOMAIN after.tool_results[tool] = {"error"}
                /\ after.errors = before.errors
                /\ route_after_tool_coordination(after) = "confidence_scorer"

\* at depth deep the BGP lookup failed, the three other tools' outputs
\* are stored, and the stage recorded no error
C36_Witness ==
    /\ ToolsRan(1)
    /\ calc.arg.state.analysis_depth = "deep"
    /\ ~calc.arg.replies.bgp_lookup.ok
    /\ DOMAIN calc.out[1].tool_results
          = {"bgp_lookup", "threat_intel", "geolocation", "asn_analysis"}
    /\ DOMAIN calc.out[1].tool_results["bgp_lookup"] = {"error"}
    /\ "results" \in DOMAIN calc.out[1].tool_results["threat_intel"]
    /\ "results" \in DOMAIN calc.out[1].tool_results["geolocation"]
    /\ "results" \in DOMAIN calc.out[1].tool_results["asn_analysis"]
    /\ calc.out[1].errors = <<>>

----------------------------------------------------------------------------
(* The validation of the batches of a bulk call.                           *)

\* C37: BulkSubmit applies to every batch the validation of a Submit
\* request: a bulk call that contains a batch with fewer than 2 or more
\* than MaxSessions sessions, or an analysis_depth outside minimal,
\* standard and deep, is rejected, and no id is minted for any batch.
C37_BulkValidatesEveryBatch ==
    last_bulk # None =>
        LET call == last_bulk[1]
            batches == call.request.session_batches
        IN  (\/ \E i \in DOMAIN batches :
                    batches[i] < 2 \/ batches[i] > max_sessions
             \/ call.request.analysis_depth
                    \notin {"minimal", "standard", "deep"})
                => /\ ~call.accepted
                   /\ call.analysis_ids = <<>>

----------------------------------------------------------------------------
(* The plan of a run against the stages it ran.                            *)

\* the step name the plan uses for each node after the Orchestrator
StepOfNode ==
    [pattern_analyzer |-> "pattern_analysis",
     tool_coordinator |-> "tool_coordination",
     confidence_scorer |-> "confidence_scoring",
     elasticsearch_enricher |-> "elasticsearch_enrichment"]

Executed(n) == \E i \in DOMAIN path : path[i] = n

\* C38: in every run, analysis_plan's analysis_steps names exactly the
\* stages that execute after the Orchestrator: pattern_analysis always,
\* and each of tool_coordination, confidence_scoring and
\* elasticsearch_enrichment if and only if its stage runs.
C38_PlanNamesExecutedStages ==
    outcome.status = "returned" =>
        LET listed == DictGet(state.analysis_plan, "analysis_steps", <<>>)
            steps == {listed[i] : i \in DOMAIN listed}
        IN  /\ "pattern_analysis" \in steps
            /\ \A n \in DOMAIN StepOfNode :
                  StepOfNode[n] \in steps <=> Executed(n)

----------------------------------------------------------------------------
(* Completeness of a run that ended without errors.                        *)

\* C40: every run that has reached its terminal node without recorded
\* errors satisfies is_complete(): coordination_confidence,
\* final_assessment and workflow_end_time are all set, at every analysis
\* depth and for every final confidence in [0,1], 0.0 included.
C40_FinishedRunIsComplete ==
    (outcome.status = "returned" /\ state.errors = <<>>)
        => is_complete(state)

----------------------------------------------------------------------------
(* The result of analyze_coordination for any response text.               *)

----------------------------------------------------------------------------
(* The specifications.                                                     *)

WorkflowIdle ==
    /\ state = EmptyDict
    /\ node = "idle"
    /\ path = <<>>
    /\ now = 0
    /\ llm = FALSE
    /\ outcome = Running
    /\ checkpoint = None

\* one run of the analysis workflow
Init == InitWorkflow /\ RateIdle /\ TaskIdle /\ ApiIdle /\ ScoreIdle
    /\ CacheIdle /\ PairIdle /\ CalcIdle

Next == NextWorkflow

Spec == Init /\ [][Next]_vars

\* the rate limiter, one key
InitRateSpec == WorkflowIdle /\ InitRate /\ TaskIdle /\ ApiIdle /\ ScoreIdle
    /\ CacheIdle /\ PairIdle /\ CalcIdle

InitRateStepsSpec ==
    /\ WorkflowIdle /\ InitRate /\ TaskIdle /\ ApiIdle /\ ScoreIdle /\ CacheIdle
    /\ PairIdle /\ CalcIdle

NextRateSteps ==
    \/ \E c \in Callers :
          \/ BeginCall(c)
          \/ CleanStep(c)
          \/ CountStep(c)
          \/ DenyStep(c)
          \/ AddStep(c)
          \/ ExpireStep(c)
    \/ Tick

SpecRateSteps == InitRateStepsSpec /\ [][NextRateSteps]_vars

NextRate == CheckRateLimit \/ Tick

SpecRate == InitRateSpec /\ [][NextRate]_vars

\* the Celery analysis task, alone or under process_bulk_analysis_task
InitTaskSpec == WorkflowIdle /\ RateIdle /\ InitTask /\ ApiIdle /\ ScoreIdle
    /\ CacheIdle /\ PairIdle /\ CalcIdle

NextTask ==
    \/ BulkStart
    \/ TaskHealthCheck
    \/ TaskAnalyze
    \/ TaskCallback
    \/ TaskExcept
    \/ BulkFinish

SpecTask == InitTaskSpec /\ [][NextTask]_vars

\* the API: Submit, Get and the background jobs
InitApiSpec == WorkflowIdle /\ RateIdle /\ TaskIdle /\ InitApi /\ ScoreIdle
    /\ CacheIdle /\ PairIdle /\ CalcIdle

NextApi == Submit \/ RunJob \/ Get

SpecApi == InitApiSpec /\ [][NextApi]_vars

\* the API under bulk calls: BulkSubmit, Get and the background jobs
NextBulk == BulkSubmit \/ RunJob \/ Get

SpecBulk == InitApiSpec /\ [][NextBulk]_vars

\* two scoring runs
InitScoreSpec == WorkflowIdle /\ RateIdle /\ TaskIdle /\ ApiIdle /\ InitScore
    /\ CacheIdle /\ PairIdle /\ CalcIdle

NextScore == ScoreRun

SpecScore == InitScoreSpec /\ [][NextScore]_vars

\* calls of the cache and workflow-state managers
InitCacheSpec ==
    WorkflowIdle /\ RateIdle /\ TaskIdle /\ ApiIdle /\ ScoreIdle
    /\ InitCache /\ PairIdle /\ CalcIdle

NextCache == CacheCall \/ CacheTick

SpecCache == InitCacheSpec /\ [][NextCache]_vars

\* two ToolCoordinator runs on one batch
InitPairSpec ==
    WorkflowIdle /\ RateIdle /\ TaskIdle /\ ApiIdle /\ ScoreIdle
    /\ CacheIdle /\ InitPair /\ CalcIdle

NextPair == PairRun

SpecPair == InitPairSpec /\ [][NextPair]_vars

\* calls of _synthesize_results and _statistical_confidence_scoring
InitCalcSpec ==
    WorkflowIdle /\ RateIdle /\ TaskIdle /\ ApiIdle /\ ScoreIdle
    /\ CacheIdle /\ PairIdle /\ InitCalc

NextCalc ==
    \/ SynthesizeCall
    \/ StatisticalScoreCall
    \/ EstimateConfidenceCall
    \/ AnalyzeCoordinationCall
    \/ ExecuteAnalysisPlanCall

SpecCalc == InitCalcSpec /\ [][NextCalc]_vars

====
